---- MODULE Spec2Model ----
(***************************************************************************)
(* Profile generation of SuperSub: source selection with a persisted       *)
(* rotation cursor (functions/api/routes/profiles.ts), the orchestrator    *)
(* generateSubscription (functions/api/utils/profileGenerator.ts) and the  *)
(* subscription fetch fetchSubscriptionContent.                            *)
(*                                                                         *)
(* Spec       per-request rotation (strategy polling, polling_mode         *)
(*            request): overlapping generation requests of one profile,    *)
(*            the detached cursor write-back, profile edits.               *)
(* SpecGroup  group rotation (strategy polling, polling_mode               *)
(*            group_request): the candidate window of every group, the     *)
(*            probes of its candidates in local and in remote mode, the    *)
(*            write-back of group_polling_indices.                         *)
(* SpecPipeline  one generation from the profile row to the response,      *)
(*            under every selection strategy: selection, fetch, the rule   *)
(*            scopes (group, subscription, profile), the manual nodes,     *)
(*            the conversion service, the catch of generateSubscription    *)
(*            and the detached write-back.                                 *)
(* SpecCompose  the same generation for profiles without rules: the order  *)
(*            of the sources, the manual nodes and their prefixes, the     *)
(*            input handed to the conversion service in remote mode.       *)
(* SpecTarget  the resolution of the output format from the query and the  *)
(*            headers of a request.                                        *)
(* SpecBatch  the batch subscription update of views/SubscriptionsView:    *)
(*            the pool of concurrent tasks, the retries of a task, the     *)
(*            delay between submissions and the cancel button.             *)
(* SpecCodec  the node codec of utils/nodeParser: a link is parsed,        *)
(*            regenerated and parsed again.                                *)
(* SpecLines  parseNodeLinks over a list of lines with one defective line. *)
(* SpecPreview  the generation of the preview route (isPreview).           *)
(* SpecCursor  one generation under a polling strategy with cursors left   *)
(*            over from a larger selection and deleted subscriptions.      *)
(* SpecRepeat  repeated requests under group rotation with one subscription*)
(*            in every group that always answers (weak fairness).          *)
(* SpecOverlap  two overlapping requests under group rotation.             *)
(* SpecCallback  local mode with a converted target: the client request,   *)
(*            the conversion service and its callback with b64.            *)
(* SpecRestart  the batch update with a batch prepared after an abort.     *)
(***************************************************************************)
EXTENDS Integers, Sequences, FiniteSets, TLC

\* Largest number of subscriptions a profile selects in Spec.
MaxSubs == 3

\* Request slots: two generation requests of the same profile may overlap.
Gens == {"g1", "g2"}

GenerationModes == {"local", "remote"}

\* Largest group-probe threshold a profile configures in SpecGroup.
MaxThreshold == 2

\* Math.random() is drawn from {0, 1/RandomSteps, ..., (RandomSteps - 1)/RandomSteps}.
RandomSteps == 5

\* new Date().getHours() is in 0..(HoursPerDay - 1).
HoursPerDay == 24

VARIABLES
    subscription_ids,       \* content.subscription_ids of the profile row
    generation_mode,        \* content.generation_mode of the profile row
    polling_index,          \* profiles.polling_index, the flat rotation cursor
    gen,                    \* the generation request running in each slot
    run,                    \* observer: the current series of generations
    polling_threshold,      \* airport_subscription_options.polling_threshold (0: not set)
    group_polling_indices,  \* profiles.group_polling_indices (JSON object)
    gp,                     \* the group-rotation generation request
    airportStrategy,        \* airport_subscription_options.strategy and polling_mode
    ruleTables,             \* the tables profile_rules, subscription_group_rules, subscription_rules
    node_links,             \* nodes.link of the rows named by content.node_ids
    node_prefix_settings,   \* content.node_prefix_settings of the profile row
    job,                    \* the generation request of SpecPipeline
    request,                \* a request to the subscription URL and its resolved target
    pool,                   \* the batch subscription update of SubscriptionsView
    codec,                  \* a node URI on its way through parse and regenerate
    isPreview,              \* the isPreview argument of generateSubscription
    subscriptions           \* the ids of the rows of table subscriptions

reqVars == <<polling_index, gen, run>>
grpVars == <<polling_threshold, group_polling_indices, gp>>
pipeVars == <<airportStrategy, ruleTables, node_links, node_prefix_settings, job>>
toolVars == <<request, pool, codec, isPreview, subscriptions>>

vars == <<subscription_ids, generation_mode, polling_index, gen, run,
          polling_threshold, group_polling_indices, gp,
          airportStrategy, ruleTables, node_links, node_prefix_settings, job,
          request, pool, codec, isPreview, subscriptions>>

----------------------------------------------------------------------------
\* Helpers

RECURSIVE SortedSeq(_)
\* Rows of SELECT ... WHERE id IN (...): the table's rows in primary-key order.
SortedSeq(S) ==
    IF S = {} THEN <<>>
    ELSE LET m == CHOOSE x \in S : \A y \in S : x <= y
         IN  <<m>> \o SortedSeq(S \ {m})

Range(s) == {s[i] : i \in 1..Len(s)}

\* The value of x % 0 in JavaScript; no index equals it.
NaN == -1

\* The value of an array element that is not there; no subscription id.
Undefined == -2

\* a % b on non-negative numbers.
Mod(a, b) == IF b = 0 \/ a = NaN THEN NaN ELSE a % b

\* JavaScript arrays are 0-based.
At(arr, i) == IF i \in 0..(Len(arr) - 1) THEN arr[i + 1] ELSE Undefined

----------------------------------------------------------------------------
\* selectSourcesByStrategy, strategy 'polling' with polling_mode 'request'.
\* allSubs is the array of the selected subscriptions that exist (N >= 1).

selectSourcesByStrategy_SelectNext(startIndex, allSubs) ==
    [type |-> "selection",
     selectedSources |-> <<At(allSubs, (startIndex + 1) % Len(allSubs))>>,
     updatedPollingState |-> [polling_index |-> (startIndex + 1) % Len(allSubs)],
     strategy |-> "polling (request)"]

selectSourcesByStrategy_NoAdvance(startIndex, allSubs) ==
    [type |-> "selection",
     selectedSources |-> <<At(allSubs, startIndex % Len(allSubs))>>,
     updatedPollingState |-> [polling_index |-> startIndex % Len(allSubs)],
     strategy |-> "polling (request)"]

selectSourcesByStrategy(startIndex, allSubs) ==
    [type |-> "selection",
     selectedSources |-> <<At(allSubs, Mod(startIndex, Len(allSubs)))>>,
     updatedPollingState |-> [polling_index |-> Mod(startIndex + 1, Len(allSubs))],
     strategy |-> "polling (request)"]

\* An updatedPollingState without keys: Object.keys(...).length = 0.
NoPollingState == [k \in {} |-> 0]

----------------------------------------------------------------------------
\* One generation request (generateSubscription), non-preview.

IdleGen ==
    [pc |-> "idle", mode |-> "local", startIndex |-> 0, allSubs |-> <<>>,
     selectedSources |-> <<>>, updatedPollingState |-> NoPollingState,
     fetched |-> "none", write |-> "none",
     status |-> 0, payload |-> <<>>]

NoRun == [ok |-> FALSE, start |-> 0, n |-> 0, sels |-> <<>>, failed |-> FALSE]

OthersIdle(g) == \A h \in Gens \ {g} : gen[h].pc = "idle"

Quiescent == \A g \in Gens : gen[g].pc = "idle"

\* The observer follows a series of generations that do not overlap, whose
\* write-backs all completed, with no profile edit in between.
RunAfterLoad(g, fresh, sel) ==
    IF ~OthersIdle(g) THEN NoRun
    ELSE IF fresh \/ ~run.ok \/ Len(run.sels) >= run.n
         THEN [ok |-> TRUE, start |-> polling_index,
               n |-> Cardinality(subscription_ids), sels |-> <<sel>>,
               failed |-> FALSE]
         ELSE [run EXCEPT !.sels = Append(@, sel)]

\* The route handler reads the profile row (SELECT * FROM profiles ...) and
\* generateSubscription runs selectSourcesByStrategy on that snapshot.
LoadProfile(g, fresh) ==
    /\ gen[g].pc = "idle"
    /\ LET allSubs == SortedSeq(subscription_ids \cap subscriptions)
           r == selectSourcesByStrategy(polling_index, allSubs)
       IN  /\ gen' = [gen EXCEPT ![g] =
                        [IdleGen EXCEPT !.pc = "selected",
                                        !.mode = generation_mode,
                                        !.startIndex = polling_index,
                                        !.allSubs = allSubs,
                                        !.selectedSources = r.selectedSources,
                                        !.updatedPollingState = r.updatedPollingState]]
           /\ run' = RunAfterLoad(g, fresh, r.selectedSources[1])
    /\ UNCHANGED <<subscription_ids, generation_mode, polling_index>>
    /\ UNCHANGED grpVars
    /\ UNCHANGED pipeVars /\ UNCHANGED toolVars

\* Local mode: generateProfileNodes awaits fetchSubscriptionContent for the
\* selected source; null (timeout, error, non-2xx, empty body) is a failure.
FetchContent(g, content) ==
    /\ gen[g].pc = "selected"
    /\ gen[g].mode = "local"
    /\ gen' = [gen EXCEPT ![g].pc = "fetched", ![g].fetched = content]
    /\ UNCHANGED <<subscription_ids, generation_mode, polling_index, run>>
    /\ UNCHANGED grpVars
    /\ UNCHANGED pipeVars /\ UNCHANGED toolVars

\* Whether the cursor write-back is issued: Object.keys(updatedPollingState).length > 0.
ShouldWriteBack_OnlyOnSuccess(g) ==
    /\ DOMAIN gen[g].updatedPollingState # {}
    /\ gen[g].fetched = "ok"

ShouldWriteBack(g) ==
    DOMAIN gen[g].updatedPollingState # {}

\* executionCtx.waitUntil(DB.prepare(UPDATE profiles SET polling_index = ? ...).run()):
\* the statement is started and not awaited.
IssueWriteBack(g) ==
    /\ \/ gen[g].pc = "selected" /\ gen[g].mode = "remote"
       \/ gen[g].pc = "fetched" /\ gen[g].mode = "local"
    /\ gen' = [gen EXCEPT ![g].pc = "written",
                          ![g].write = IF ShouldWriteBack(g) THEN "pending" ELSE "none"]
    /\ UNCHANGED <<subscription_ids, generation_mode, polling_index, run>>
    /\ UNCHANGED grpVars
    /\ UNCHANGED pipeVars /\ UNCHANGED toolVars

\* The result object of mainLogic, from the request's own inputs.
mainLogic_AwaitWrite(g, target, converter) ==
    IF gen[g].write = "failed"
    THEN [status |-> 500, payload |-> <<"error">>]
    ELSE IF gen[g].mode = "local" /\ gen[g].fetched # "ok"
    THEN [status |-> 404, payload |-> <<"No nodes found for this profile.">>]
    ELSE IF gen[g].mode = "local" /\ target = "base64"
    THEN [status |-> 200, payload |-> <<"base64">> \o gen[g].selectedSources]
    ELSE IF converter = "unreachable"
    THEN [status |-> 500, payload |-> <<"error">>]
    ELSE IF converter = "bad_status"
    THEN [status |-> 502, payload |-> <<"subconverter">>]
    ELSE [status |-> 200, payload |-> <<"stream">> \o gen[g].selectedSources]

mainLogic(g, target, converter) ==
    IF gen[g].mode = "local" /\ gen[g].fetched # "ok"
    THEN [status |-> 404, payload |-> <<"No nodes found for this profile.">>]
    ELSE IF gen[g].mode = "local" /\ target = "base64"
    THEN [status |-> 200, payload |-> <<"base64">> \o gen[g].selectedSources]
    ELSE IF converter = "unreachable"
    THEN [status |-> 500, payload |-> <<"error">>]
    ELSE IF converter = "bad_status"
    THEN [status |-> 502, payload |-> <<"subconverter">>]
    ELSE [status |-> 200, payload |-> <<"stream">> \o gen[g].selectedSources]

\* Whether mainLogic reaches the request to the conversion service.
CallsConverter(g, target) ==
    \/ gen[g].mode = "remote"
    \/ gen[g].mode = "local" /\ gen[g].fetched = "ok" /\ target # "base64"

\* The rest of generateSubscription: the response is computed and returned.
Respond(g, target, converter) ==
    /\ gen[g].pc = "written"
    /\ (converter = "none") <=> ~CallsConverter(g, target)
    /\ LET r == mainLogic(g, target, converter)
       IN  /\ gen' = [gen EXCEPT ![g].pc = "responded",
                                 ![g].status = r.status,
                                 ![g].payload = r.payload]
           /\ run' = IF run.ok /\ r.status # 200
                     THEN [run EXCEPT !.failed = TRUE] ELSE run
    /\ UNCHANGED <<subscription_ids, generation_mode, polling_index>>
    /\ UNCHANGED grpVars
    /\ UNCHANGED pipeVars /\ UNCHANGED toolVars

\* The value the UPDATE stores: the bound parameter, computed from the snapshot.
WriteBackValue_Increment(g) ==
    (polling_index + 1) % Len(gen[g].allSubs)

WriteBackValue(g) ==
    gen[g].updatedPollingState.polling_index

\* The detached UPDATE completes.
WriteApply(g) ==
    /\ gen[g].write = "pending"
    /\ polling_index' = WriteBackValue(g)
    /\ gen' = [gen EXCEPT ![g].write = "applied"]
    /\ UNCHANGED <<subscription_ids, generation_mode, run>>
    /\ UNCHANGED grpVars
    /\ UNCHANGED pipeVars /\ UNCHANGED toolVars

\* The detached UPDATE fails or is dropped; nothing observes it.
WriteFail(g) ==
    /\ gen[g].write = "pending"
    /\ gen' = [gen EXCEPT ![g].write = "failed"]
    /\ run' = NoRun
    /\ UNCHANGED <<subscription_ids, generation_mode, polling_index>>
    /\ UNCHANGED grpVars
    /\ UNCHANGED pipeVars /\ UNCHANGED toolVars

\* The request and its detached write are over; the slot is free again.
Finish(g) ==
    /\ gen[g].pc = "responded"
    /\ gen[g].write # "pending"
    /\ gen' = [gen EXCEPT ![g] = IdleGen]
    /\ UNCHANGED <<subscription_ids, generation_mode, polling_index, run>>
    /\ UNCHANGED grpVars
    /\ UNCHANGED pipeVars /\ UNCHANGED toolVars

\* Local mode: if (query.b64 || targetClient === 'base64') the encoded node
\* list is the response.
isLocalContentBase64_TargetOnly(b64, target) == target = "base64"

isLocalContentBase64(b64, target) == b64 \/ target = "base64"

\* The end of mainLogic in local mode. Without nodes (404) or with
\* isLocalContentBase64 the response is made without the conversion service;
\* otherwise the service is asked with url = the request's own URL plus
\* b64=1, and the request waits for it.
AnswerLocal(g, b64, target) ==
    /\ gen[g].pc = "written"
    /\ gen[g].mode = "local"
    /\ IF gen[g].fetched # "ok" \/ isLocalContentBase64(b64, target)
       THEN Respond(g, "base64", "none")
       ELSE /\ gen' = [gen EXCEPT ![g].pc = "converting"]
            /\ UNCHANGED <<subscription_ids, generation_mode, polling_index, run>>
            /\ UNCHANGED grpVars
            /\ UNCHANGED pipeVars /\ UNCHANGED toolVars

\* The conversion service fetches the URL it was given: a request of its own
\* to the same route, carrying b64=1.
Callback(g, h) ==
    /\ gen[g].pc = "converting"
    /\ LoadProfile(h, FALSE)

\* The conversion service answers the waiting request with the conversion of
\* what its callback returned, or with an error when the callback failed.
ConverterAnswers(g, h) ==
    /\ gen[g].pc = "converting"
    /\ gen[h].pc = "responded"
    /\ gen' = [gen EXCEPT
                  ![g].pc = "responded",
                  ![g].status = IF gen[h].status = 200 THEN 200 ELSE 502,
                  ![g].payload = IF gen[h].status = 200
                                 THEN <<"stream">> \o Tail(gen[h].payload)
                                 ELSE <<"subconverter">>]
    /\ UNCHANGED <<subscription_ids, generation_mode, polling_index, run>>
    /\ UNCHANGED grpVars
    /\ UNCHANGED pipeVars /\ UNCHANGED toolVars

\* PUT /api/profiles/:id rewrites content (here: the selected subscriptions);
\* polling_index is not touched.
UpdateProfile(n) ==
    /\ 1..n # subscription_ids
    /\ subscription_ids' = 1..n
    /\ run' = NoRun
    /\ UNCHANGED <<generation_mode, polling_index, gen>>
    /\ UNCHANGED grpVars
    /\ UNCHANGED pipeVars /\ UNCHANGED toolVars

----------------------------------------------------------------------------
\* Group rotation: the subscriptions table of the user, by group, ORDER BY id.

GroupOrder == <<"A", "B">>

Groups == Range(GroupOrder)

GroupSubs == [A |-> <<1, 2, 3, 4, 5>>, B |-> <<6, 7>>]

AllSubscriptions == UNION {Range(GroupSubs[groupId]) : groupId \in Groups}

\* The rows of a group that exist, ORDER BY id.
GroupRows(groupId) == SelectSeq(GroupSubs[groupId], LAMBDA id : id \in subscriptions)

\* The subscription sets a profile is saved with in SpecGroup.
Selections == { {1, 2, 3, 4, 5, 6, 7}, {1, 2, 3, 4, 5}, {1, 3, 6} }

Min(a, b) == IF a <= b THEN a ELSE b

\* groupPollingState[groupId] || 0
Get(state, groupId) == IF groupId \in DOMAIN state THEN state[groupId] ELSE 0

\* groupPollingState[groupId] = value
Put(state, groupId, value) ==
    [k \in DOMAIN state \cup {groupId} |-> IF k = groupId THEN value ELSE state[k]]

\* airportOptions.polling_threshold || 5
DefaultThreshold == 5

pollingThreshold(configured) ==
    IF configured = 0 THEN DefaultThreshold ELSE configured

\* SELECT group_id, COUNT(*) ... WHERE id IN (subIds) GROUP BY group_id
groupCountsMap(subIds) ==
    [groupId \in Groups |-> Cardinality(subIds \cap Range(GroupRows(groupId)))]

\* SELECT ... WHERE group_id = ? ORDER BY id LIMIT ? OFFSET ?
LimitOffset_NoLimit(rows, limit, offset) ==
    SubSeq(rows, offset + 1, Len(rows))

LimitOffset(rows, limit, offset) ==
    SubSeq(rows, offset + 1, Min(offset + limit, Len(rows)))

\* The candidate set of one group.
CandidateSet(groupId, subIds, groupPollingState, threshold) ==
    LET totalInGroup == groupCountsMap(subIds)[groupId]
        startIndex == Get(groupPollingState, groupId)
        effectiveStartIndex == startIndex % totalInGroup
    IN  [groupId |-> groupId,
         candidates |-> LimitOffset(GroupRows(groupId), threshold, effectiveStartIndex),
         totalInGroup |-> totalInGroup,
         startIndex |-> effectiveStartIndex]

\* selectSourcesByStrategy, strategy 'polling' with polling_mode
\* 'group_request': the candidate sets, one per group with a selected
\* subscription, in the order of the group counts.
candidateSets(subIds, groupPollingState, threshold) ==
    LET present == SelectSeq(GroupOrder, LAMBDA groupId : groupCountsMap(subIds)[groupId] > 0)
    IN  [i \in 1..Len(present) |->
            CandidateSet(present[i], subIds, groupPollingState, threshold)]

\* The cursor after the candidate at `index` succeeded.
newIndex_NoStep(candidateSet, index) ==
    (candidateSet.startIndex + index) % candidateSet.totalInGroup

newIndex(candidateSet, index) ==
    (candidateSet.startIndex + index + 1) % candidateSet.totalInGroup

\* The polling state after every candidate of a group failed: the catch
\* block (local) and the return null (remote) leave it alone.
allFailed_SkipWindow(groupPollingState, candidateSet) ==
    Put(groupPollingState, candidateSet.groupId,
        (candidateSet.startIndex + Len(candidateSet.candidates)) % candidateSet.totalInGroup)

allFailed(groupPollingState, candidateSet) ==
    groupPollingState

NoProbe == [started |-> 0, results |-> <<>>, winner |-> -1]

IdleProbe ==
    [pc |-> "idle", threshold |-> 0, subIds |-> {}, snapshot |-> NoPollingState,
     groupPollingState |-> NoPollingState, candidateSets |-> <<>>,
     probe |-> [groupId \in Groups |-> NoProbe],
     allNodes |-> <<>>, write |-> "none"]

\* The candidate set of a group in the running request (groupId has one).
SetOf(groupId) ==
    LET i == CHOOSE i \in 1..Len(gp.candidateSets) : gp.candidateSets[i].groupId = groupId
    IN  gp.candidateSets[i]

ProbedGroups == {gp.candidateSets[i].groupId : i \in 1..Len(gp.candidateSets)}

\* Every candidate of the group has been fetched and none returned content.
AllFailed(groupId) ==
    /\ gp.probe[groupId].winner = -1
    /\ Len(gp.probe[groupId].results) = Len(SetOf(groupId).candidates)
    /\ \A k \in 1..Len(gp.probe[groupId].results) : gp.probe[groupId].results[k] = "null"

\* findAvailableSubInGroup / findAvailableSubInGroupForRemote has returned.
Settled(groupId) == gp.probe[groupId].winner # -1 \/ AllFailed(groupId)

\* The route handler reads the profile row and selectSourcesByStrategy
\* returns the candidate sets.
LoadProfileGroup ==
    /\ gp.pc = "idle"
    /\ LET threshold == pollingThreshold(polling_threshold)
       IN  gp' = [IdleProbe EXCEPT
                     !.pc = "probing",
                     !.threshold = threshold,
                     !.subIds = subscription_ids,
                     !.snapshot = group_polling_indices,
                     !.groupPollingState = group_polling_indices,
                     !.candidateSets = candidateSets(subscription_ids,
                                                     group_polling_indices, threshold)]
    /\ UNCHANGED <<subscription_ids, generation_mode, polling_threshold,
                   group_polling_indices>>
    /\ UNCHANGED reqVars
    /\ UNCHANGED pipeVars /\ UNCHANGED toolVars

\* Local mode, findAvailableSubInGroup: the timer of candidate `index`
\* (index * pollingInterval) fires and its fetch starts, whatever the state
\* of the candidates before it.
StartProbeLocal(groupId, index) ==
    /\ generation_mode = "local"
    /\ gp.pc \in {"probing", "written"}
    /\ groupId \in ProbedGroups
    /\ index = gp.probe[groupId].started
    /\ index < Len(SetOf(groupId).candidates)
    /\ gp' = [gp EXCEPT !.probe[groupId].started = index + 1,
                        !.probe[groupId].results = Append(@, "pending")]
    /\ UNCHANGED <<subscription_ids, generation_mode, polling_threshold,
                   group_polling_indices>>
    /\ UNCHANGED reqVars
    /\ UNCHANGED pipeVars /\ UNCHANGED toolVars

\* Remote mode, findAvailableSubInGroupForRemote: the for loop awaits each
\* fetch; the next candidate is fetched after the previous one failed.
StartProbeRemote(groupId, index) ==
    /\ generation_mode = "remote"
    /\ gp.pc = "probing"
    /\ groupId \in ProbedGroups
    /\ index = gp.probe[groupId].started
    /\ index < Len(SetOf(groupId).candidates)
    /\ gp.probe[groupId].winner = -1
    /\ index > 0 => gp.probe[groupId].results[index] = "null"
    /\ gp' = [gp EXCEPT !.probe[groupId].started = index + 1,
                        !.probe[groupId].results = Append(@, "pending")]
    /\ UNCHANGED <<subscription_ids, generation_mode, polling_threshold,
                   group_polling_indices>>
    /\ UNCHANGED reqVars
    /\ UNCHANGED pipeVars /\ UNCHANGED toolVars

\* The fetch of candidate `index` ends (fetchSubscriptionContent): content or
\* null. The first content of a group settles it (Promise.any in local mode,
\* the return inside the loop in remote mode); a later result is dropped.
FinishProbe(groupId, index, content) ==
    /\ gp.pc = "probing"
    /\ groupId \in ProbedGroups
    /\ index < gp.probe[groupId].started
    /\ gp.probe[groupId].results[index + 1] = "pending"
    /\ gp.probe[groupId].winner = -1
    /\ LET cs == SetOf(groupId)
           results == [gp.probe[groupId].results EXCEPT ![index + 1] = content]
           last == /\ content = "null"
                   /\ Len(results) = Len(cs.candidates)
                   /\ \A k \in 1..Len(results) : results[k] = "null"
       IN  gp' = [gp EXCEPT
                     !.probe[groupId].results = results,
                     !.probe[groupId].winner = IF content = "ok" THEN index ELSE -1,
                     !.groupPollingState =
                         IF content = "ok" THEN Put(@, groupId, newIndex(cs, index))
                         ELSE IF last THEN allFailed(@, cs)
                         ELSE @,
                     !.allNodes =
                         IF content = "ok" /\ generation_mode = "local"
                         THEN Append(@, At(cs.candidates, index)) ELSE @]
    /\ UNCHANGED <<subscription_ids, generation_mode, polling_threshold,
                   group_polling_indices>>
    /\ UNCHANGED reqVars
    /\ UNCHANGED pipeVars /\ UNCHANGED toolVars

\* availableUrls: the results of Promise.all(groupPromises) that are not null.
availableUrls ==
    LET won == SelectSeq(gp.candidateSets,
                         LAMBDA cs : gp.probe[cs.groupId].winner # -1)
    IN  [i \in 1..Len(won) |-> At(won[i].candidates, gp.probe[won[i].groupId].winner)]

\* Promise.all(groupPromises) has resolved: the polling state is handed to the
\* detached UPDATE when it has a key.
IssueWriteBackGroup ==
    /\ gp.pc = "probing"
    /\ \A groupId \in ProbedGroups : Settled(groupId)
    /\ gp' = [gp EXCEPT
                 !.pc = "written",
                 !.allNodes = IF generation_mode = "remote" THEN availableUrls ELSE @,
                 !.write = IF DOMAIN gp.groupPollingState # {} THEN "pending" ELSE "none"]
    /\ UNCHANGED <<subscription_ids, generation_mode, polling_threshold,
                   group_polling_indices>>
    /\ UNCHANGED reqVars
    /\ UNCHANGED pipeVars /\ UNCHANGED toolVars

\* The detached UPDATE profiles SET group_polling_indices = ? completes.
WriteApplyGroup ==
    /\ gp.write = "pending"
    /\ group_polling_indices' = gp.groupPollingState
    /\ gp' = [gp EXCEPT !.write = "applied"]
    /\ UNCHANGED <<subscription_ids, generation_mode, polling_threshold>>
    /\ UNCHANGED reqVars
    /\ UNCHANGED pipeVars /\ UNCHANGED toolVars

\* The detached UPDATE fails or is dropped.
WriteFailGroup ==
    /\ gp.write = "pending"
    /\ gp' = [gp EXCEPT !.write = "failed"]
    /\ UNCHANGED <<subscription_ids, generation_mode, polling_threshold,
                   group_polling_indices>>
    /\ UNCHANGED reqVars
    /\ UNCHANGED pipeVars /\ UNCHANGED toolVars

\* The request and its detached write are over.
FinishGroup ==
    /\ gp.pc = "written"
    /\ gp.write # "pending"
    /\ gp' = IdleProbe
    /\ UNCHANGED <<subscription_ids, generation_mode, polling_threshold,
                   group_polling_indices>>
    /\ UNCHANGED reqVars
    /\ UNCHANGED pipeVars /\ UNCHANGED toolVars

\* PUT /api/profiles/:id rewrites content (here the selected subscriptions);
\* group_polling_indices is not touched.
UpdateProfileGroup(subIds) ==
    /\ subIds # subscription_ids
    /\ subscription_ids' = subIds
    /\ UNCHANGED <<generation_mode, polling_threshold, group_polling_indices, gp>>
    /\ UNCHANGED reqVars
    /\ UNCHANGED pipeVars /\ UNCHANGED toolVars

----------------------------------------------------------------------------
\* Nodes and rules. A node name is a pair <<prefix, rest>>: "HK-01" is
\* <<"HK", "-01">>. A keyword or an anchored pattern is a prefix token.

\* parseSubscriptionContent of the body a subscription serves.
SubscriptionContent == << <<"HK", "-01">>, <<"test", "-02">>, <<"US", "-03">> >>

ParsedNodes(subId) ==
    [i \in 1..Len(SubscriptionContent) |->
        [name |-> SubscriptionContent[i], subscriptionName |-> subId,
         isManual |-> FALSE, parsed |-> TRUE, group_name |-> ""]]

\* A manual node: parseNodeLinks(n.link)[0] spread with id, raw, isManual.
\* A stored link that does not parse leaves the node without name or protocol.
\* "grouped" is a link that parses, of a node that belongs to a node group
\* (n.group_name from the LEFT JOIN on node_groups).
ManualNode(link) ==
    [name |-> IF link \in {"ok", "grouped"} THEN <<"JP", "-09">> ELSE <<>>,
     subscriptionName |-> 0, isManual |-> TRUE, parsed |-> (link \in {"ok", "grouped"}),
     group_name |-> IF link = "grouped" THEN "G" ELSE ""]

\* The rows of nodes selected by content.node_ids, by the link stored.
ManualLinks == { <<>>, <<"ok">>, <<"unparsable">> }

ManualLinksCompose == { <<>>, <<"ok">>, <<"grouped">>, <<"ok", "grouped">> }

\* content.node_prefix_settings || {}
NoPrefix ==
    [enable_subscription_prefix |-> FALSE, manual_node_prefix |-> "",
     enable_group_name_prefix |-> FALSE, manual_nodes_first |-> FALSE]

PrefixSettings ==
    { NoPrefix,
      [NoPrefix EXCEPT !.enable_subscription_prefix = TRUE],
      [NoPrefix EXCEPT !.manual_node_prefix = "custom"],
      [NoPrefix EXCEPT !.enable_group_name_prefix = TRUE],
      [NoPrefix EXCEPT !.enable_group_name_prefix = TRUE, !.manual_node_prefix = "custom"],
      [NoPrefix EXCEPT !.manual_nodes_first = TRUE],
      [enable_subscription_prefix |-> TRUE, manual_node_prefix |-> "custom",
       enable_group_name_prefix |-> TRUE, manual_nodes_first |-> TRUE] }

Rule(id, type, match, format, valid, enabled, sort_order) ==
    [id |-> id, type |-> type, match |-> match, format |-> format,
     valid |-> valid, enabled |-> enabled, sort_order |-> sort_order]

NoRules ==
    [profile |-> <<>>, group |-> [groupId \in Groups |-> <<>>],
     sub |-> [subId \in 1..7 |-> <<>>]]

\* The three rule tables, rows in table order.
RulesExample ==
    [NoRules EXCEPT
        !.profile = << Rule(3, "filter_by_name_regex", "HongKong", "", TRUE, TRUE, 3),
                       Rule(1, "exclude_by_name_keyword", "test", "", TRUE, TRUE, 1),
                       Rule(2, "rename_by_regex", "HK", "HongKong", TRUE, TRUE, 2) >>]

RulesScopes ==
    [NoRules EXCEPT
        !.profile = << Rule(1, "exclude_by_name_keyword", "test", "", TRUE, TRUE, 1),
                       Rule(2, "filter_by_name_keyword", "JP", "", TRUE, FALSE, 0) >>,
        !.group["A"] = << Rule(4, "exclude_by_name_keyword", "HK", "", TRUE, FALSE, 1),
                          Rule(3, "rename_by_regex", "HK", "HongKong", TRUE, TRUE, 2) >>,
        !.sub[1] = << Rule(5, "rename_by_regex", "HongKong", "HKG", TRUE, TRUE, 1) >>,
        !.sub[6] = << Rule(7, "filter_by_name_regex", "US", "", TRUE, TRUE, 2),
                      Rule(6, "rename_by_regex", "test", "US", TRUE, FALSE, 1) >>]

RulesInvalid ==
    [NoRules EXCEPT
        !.profile = << Rule(1, "rename_by_regex", "HK", "HongKong", TRUE, TRUE, 1),
                       Rule(2, "filter_by_name_regex", "(", "", FALSE, TRUE, 2),
                       Rule(3, "filter_by_name_regex", "HongKong", "", TRUE, TRUE, 3) >>,
        !.sub[1] = << Rule(4, "rename_by_regex", "[", "x", FALSE, TRUE, 1),
                      Rule(5, "exclude_by_name_keyword", "test", "", TRUE, TRUE, 2) >>]

RuleTables == {NoRules, RulesExample, RulesScopes, RulesInvalid}

\* ORDER BY sort_order ASC
RECURSIVE OrderBySortOrder(_)
OrderBySortOrder(rows) ==
    IF rows = <<>> THEN <<>>
    ELSE LET i == CHOOSE i \in 1..Len(rows) :
                    \A j \in 1..Len(rows) : rows[i].sort_order <= rows[j].sort_order
         IN  <<rows[i]>> \o
             OrderBySortOrder(SubSeq(rows, 1, i - 1) \o SubSeq(rows, i + 1, Len(rows)))

\* SELECT * FROM <rules table> WHERE ... AND enabled = 1 ORDER BY sort_order ASC
EnabledRules_AllRows(rows) ==
    OrderBySortOrder(rows)

EnabledRules(rows) ==
    OrderBySortOrder(SelectSeq(rows, LAMBDA rule : rule.enabled))

\* One rule on a node list (RuleEngine, behaviour per type).
NameHas(node, token) == node.name # <<>> /\ node.name[1] = token

ApplyRule(rule, nodes) ==
    CASE rule.type = "filter_by_name_keyword" ->
            SelectSeq(nodes, LAMBDA node : NameHas(node, rule.match))
      [] rule.type = "exclude_by_name_keyword" ->
            SelectSeq(nodes, LAMBDA node : ~NameHas(node, rule.match))
      [] rule.type = "filter_by_name_regex" ->
            SelectSeq(nodes, LAMBDA node : NameHas(node, rule.match))
      [] rule.type = "rename_by_regex" ->
            [i \in 1..Len(nodes) |->
                IF NameHas(nodes[i], rule.match)
                THEN [nodes[i] EXCEPT !.name = <<rule.format, nodes[i].name[2]>>]
                ELSE nodes[i]]

\* applySubscriptionRules(nodes, rules): the pipeline; a rule whose pattern or
\* payload is invalid is skipped.
RECURSIVE applySubscriptionRules_RightToLeft(_, _)
applySubscriptionRules_RightToLeft(nodes, rules) ==
    IF rules = <<>> THEN nodes
    ELSE LET last == rules[Len(rules)]
             rest == SubSeq(rules, 1, Len(rules) - 1)
         IN  IF ~last.valid THEN applySubscriptionRules_RightToLeft(nodes, rest)
             ELSE applySubscriptionRules_RightToLeft(ApplyRule(last, nodes), rest)

RECURSIVE applySubscriptionRules_AbortOnInvalid(_, _)
applySubscriptionRules_AbortOnInvalid(nodes, rules) ==
    IF rules = <<>> THEN nodes
    ELSE IF ~Head(rules).valid THEN nodes
    ELSE applySubscriptionRules_AbortOnInvalid(ApplyRule(Head(rules), nodes), Tail(rules))

RECURSIVE applySubscriptionRules(_, _)
applySubscriptionRules(nodes, rules) ==
    IF rules = <<>> THEN nodes
    ELSE IF ~Head(rules).valid THEN applySubscriptionRules(nodes, Tail(rules))
    ELSE applySubscriptionRules(ApplyRule(Head(rules), nodes), Tail(rules))

----------------------------------------------------------------------------
\* Source selection, every strategy.

Strategies ==
    {"all", "random", "polling (hourly)", "polling (request)", "polling (group_request)"}

\* sub.group_id
GroupOf(subId) == CHOOSE groupId \in Groups : subId \in Range(GroupSubs[groupId])

\* Math.floor(Math.random() * subsInGroup.length), Math.random() = r / RandomSteps
randomIndex(r, length) == (r * length) \div RandomSteps

\* strategy 'random': one subscription of every group of allSubs.
RandomSelection_FromAll(allSubs, rnd) ==
    LET present == SelectSeq(GroupOrder,
                     LAMBDA groupId : \E i \in 1..Len(allSubs) : GroupOf(allSubs[i]) = groupId)
    IN  [k \in 1..Len(present) |->
            At(allSubs, randomIndex(rnd[present[k]], Len(allSubs)))]

RandomSelection(allSubs, rnd) ==
    LET present == SelectSeq(GroupOrder,
                     LAMBDA groupId : \E i \in 1..Len(allSubs) : GroupOf(allSubs[i]) = groupId)
    IN  [k \in 1..Len(present) |->
            LET subsInGroup == SelectSeq(allSubs, LAMBDA subId : GroupOf(subId) = present[k])
            IN  At(subsInGroup, randomIndex(rnd[present[k]], Len(subsInGroup)))]

\* selectSourcesByStrategy for the strategies that return a selection.
StrategySelection_HourlyWrites(strategy, startIndex, allSubs, hour, rnd) ==
    CASE strategy = "random" ->
            [type |-> "selection", selectedSources |-> RandomSelection(allSubs, rnd),
             updatedPollingState |-> NoPollingState, strategy |-> strategy]
      [] strategy = "polling (request)" -> selectSourcesByStrategy(startIndex, allSubs)
      [] strategy = "polling (hourly)" ->
            [type |-> "selection",
             selectedSources |-> <<At(allSubs, hour % Len(allSubs))>>,
             updatedPollingState |-> [polling_index |-> (hour + 1) % Len(allSubs)],
             strategy |-> strategy]
      [] OTHER ->
            [type |-> "selection", selectedSources |-> allSubs,
             updatedPollingState |-> NoPollingState, strategy |-> strategy]

StrategySelection(strategy, startIndex, allSubs, hour, rnd) ==
    CASE strategy = "random" ->
            [type |-> "selection", selectedSources |-> RandomSelection(allSubs, rnd),
             updatedPollingState |-> NoPollingState, strategy |-> strategy]
      [] strategy = "polling (request)" -> selectSourcesByStrategy(startIndex, allSubs)
      [] strategy = "polling (hourly)" ->
            [type |-> "selection",
             selectedSources |-> <<At(allSubs, Mod(hour, Len(allSubs)))>>,
             updatedPollingState |-> NoPollingState, strategy |-> strategy]
      [] OTHER ->
            [type |-> "selection", selectedSources |-> allSubs,
             updatedPollingState |-> NoPollingState, strategy |-> strategy]

----------------------------------------------------------------------------
\* One generation request through the whole pipeline (non-preview).

IdleJob ==
    [pc |-> "idle", mode |-> "local", type |-> "none",
     selectedSources |-> <<>>, candidateSets |-> <<>>,
     updatedPollingState |-> NoPollingState,
     before |-> [polling_index |-> 0, group_polling_indices |-> NoPollingState],
     results |-> <<>>, fetched |-> <<>>, allNodes |-> <<>>, urls |-> <<>>, log |-> <<>>,
     fetches |-> <<>>, parses |-> <<>>,
     write |-> "none", thrown |-> FALSE, target |-> "none", converter |-> "none",
     status |-> 0, kind |-> "none", body |-> <<>>]

pipeFrame ==
    <<subscription_ids, generation_mode, polling_threshold, gen, run, gp,
      airportStrategy, ruleTables, node_links, node_prefix_settings>>

\* The profile row is read and selectSourcesByStrategy runs on it.
LoadJob(hour, rnd) ==
    /\ job.pc = "idle"
    /\ LET allSubs == SortedSeq(subscription_ids \cap subscriptions)
           sets == candidateSets(subscription_ids, group_polling_indices,
                                 pollingThreshold(polling_threshold))
           r == IF airportStrategy = "polling (group_request)" /\ sets = <<>>
                THEN [type |-> "selection", selectedSources |-> <<>>,
                      candidateSets |-> <<>>, updatedPollingState |-> NoPollingState]
                ELSE IF airportStrategy = "polling (group_request)"
                THEN [type |-> "candidates", selectedSources |-> <<>>,
                      candidateSets |-> candidateSets(subscription_ids, group_polling_indices,
                                                      pollingThreshold(polling_threshold)),
                      updatedPollingState |-> NoPollingState]
                ELSE LET sel == StrategySelection(airportStrategy, polling_index, allSubs, hour, rnd)
                     IN  [type |-> sel.type, selectedSources |-> sel.selectedSources,
                          candidateSets |-> <<>>,
                          updatedPollingState |-> sel.updatedPollingState]
       IN  job' = [IdleJob EXCEPT
                      !.pc = "selected",
                      !.mode = generation_mode,
                      !.type = r.type,
                      !.selectedSources = r.selectedSources,
                      !.candidateSets = r.candidateSets,
                      !.updatedPollingState = r.updatedPollingState,
                      !.before = [polling_index |-> polling_index,
                                  group_polling_indices |-> group_polling_indices]]
    /\ UNCHANGED <<polling_index, group_polling_indices>>
    /\ UNCHANGED pipeFrame /\ UNCHANGED toolVars

\* fetchedSources: (await Promise.all(fetchPromises)).filter(Boolean)
fetchedSources_AllOrNothing(selectedSources, results) ==
    IF \E i \in 1..Len(results) : results[i] = "null" THEN <<>>
    ELSE selectedSources

fetchedSources(selectedSources, results) ==
    LET ok == SelectSeq([i \in 1..Len(selectedSources) |-> i],
                        LAMBDA i : results[i] = "ok")
    IN  [k \in 1..Len(ok) |-> selectedSources[ok[k]]]

\* Local mode, a selection: every selected source is fetched
\* (fetchSubscriptionContent returns the body or null).
FetchSelected(results) ==
    /\ job.pc = "selected"
    /\ job.mode = "local"
    /\ job.type = "selection"
    /\ Undefined \notin Range(job.selectedSources)
    /\ DOMAIN results = 1..Len(job.selectedSources)
    /\ job' = [job EXCEPT !.pc = "fetched",
                          !.results = results,
                          !.fetches = job.selectedSources,
                          !.fetched = fetchedSources(job.selectedSources, results)]
    /\ UNCHANGED <<polling_index, group_polling_indices>>
    /\ UNCHANGED pipeFrame /\ UNCHANGED toolVars

\* combinedRules of one source: the enabled group rules, then the enabled
\* subscription rules.
combinedRules(subId) ==
    EnabledRules(ruleTables.group[GroupOf(subId)]) \o EnabledRules(ruleTables.sub[subId])

RuleIds(ruleList) == [i \in 1..Len(ruleList) |-> ruleList[i].id]

\* The for loop over fetchedSources: parse, apply combinedRules when there are
\* any, push the nodes. The result is <<allNodes, engine calls>>.
RECURSIVE SourceLoop(_, _, _)
SourceLoop(sources, allNodes, log) ==
    IF sources = <<>> THEN <<allNodes, log>>
    ELSE LET subId == Head(sources)
             cr == combinedRules(subId)
             nodes == IF cr # <<>> THEN applySubscriptionRules(ParsedNodes(subId), cr)
                      ELSE ParsedNodes(subId)
             entry == [scope |-> "source", sub |-> subId, rules |-> RuleIds(cr)]
         IN  SourceLoop(Tail(sources), allNodes \o nodes,
                        IF cr # <<>> THEN Append(log, entry) ELSE log)

ApplySourceRules ==
    /\ job.pc = "fetched"
    /\ LET r == SourceLoop(job.fetched, <<>>, <<>>)
       IN  job' = [job EXCEPT !.pc = "sourced", !.allNodes = r[1], !.log = r[2],
                              !.parses = job.fetched]
    /\ UNCHANGED <<polling_index, group_polling_indices>>
    /\ UNCHANGED pipeFrame /\ UNCHANGED toolVars

\* The polling state after the groups were probed: groupPollingState[groupId]
\* = newIndex for every group with a winner, on top of the persisted map.
RECURSIVE ProbedPollingState(_, _, _)
ProbedPollingState(sets, winners, groupPollingState) ==
    IF sets = <<>> THEN groupPollingState
    ELSE LET cs == Head(sets)
             w == winners[cs.groupId]
         IN  ProbedPollingState(Tail(sets), winners,
                IF w # -1 THEN Put(groupPollingState, cs.groupId, newIndex(cs, w))
                ELSE groupPollingState)

\* The subscriptions that answered first in their group, in group order.
Winners(sets, winners) ==
    LET won == SelectSeq(sets, LAMBDA cs : winners[cs.groupId] # -1)
    IN  [i \in 1..Len(won) |-> At(won[i].candidates, winners[won[i].groupId])]

RECURSIVE RawNodes(_)
RawNodes(subIds) ==
    IF subIds = <<>> THEN <<>> ELSE ParsedNodes(Head(subIds)) \o RawNodes(Tail(subIds))

\* The orders in which the probes of the groups can complete.
CompletionOrders ==
    {order \in [1..Len(GroupOrder) -> Groups] :
        \A i, j \in 1..Len(GroupOrder) : order[i] = order[j] => i = j}

\* The candidate sets in the order in which their groups complete.
CompletedSets(sets, completion) ==
    LET present == SelectSeq(completion,
                             LAMBDA groupId : \E i \in 1..Len(sets) : sets[i].groupId = groupId)
    IN  [i \in 1..Len(present) |->
            CHOOSE cs \in Range(sets) : cs.groupId = present[i]]

\* The subscriptions fetched while the groups are probed: in local mode
\* every candidate of the window has its own promise, in remote mode the
\* loop stops at the first candidate that answers.
RECURSIVE probedCandidates_WholeWindow(_, _, _)
probedCandidates_WholeWindow(sets, winners, mode) ==
    IF sets = <<>> THEN <<>>
    ELSE Head(sets).candidates \o probedCandidates_WholeWindow(Tail(sets), winners, mode)

RECURSIVE probedCandidates(_, _, _)
probedCandidates(sets, winners, mode) ==
    IF sets = <<>> THEN <<>>
    ELSE LET cs == Head(sets)
             w == winners[cs.groupId]
         IN  (IF mode = "remote" /\ w # -1 THEN SubSeq(cs.candidates, 1, w + 1)
              ELSE cs.candidates) \o probedCandidates(Tail(sets), winners, mode)

\* Polling mode group_request: every group is probed (Promise.all over the
\* groups); winners[groupId] is the index of the candidate whose content is
\* used, -1 when every candidate failed. Local mode pushes the parsed nodes of
\* the winner when its group completes (completion is the order in which the
\* groups do); remote mode collects the URLs from the results of Promise.all,
\* in the order of the candidate sets.
ProbeGroupsJob(winners, completion) ==
    /\ job.pc = "selected"
    /\ job.type = "candidates"
    /\ \A groupId \in Groups :
          IF \E i \in 1..Len(job.candidateSets) : job.candidateSets[i].groupId = groupId
          THEN LET cs == CHOOSE cs \in Range(job.candidateSets) : cs.groupId = groupId
               IN  winners[groupId] < Len(cs.candidates)
          ELSE winners[groupId] = -1
    /\ LET groupPollingState ==
               ProbedPollingState(job.candidateSets, winners, job.before.group_polling_indices)
           won == IF job.mode = "local"
                  THEN Winners(CompletedSets(job.candidateSets, completion), winners)
                  ELSE Winners(job.candidateSets, winners)
       IN  job' = [job EXCEPT
                      !.pc = "sourced",
                      !.fetched = won,
                      !.fetches = probedCandidates(job.candidateSets, winners, job.mode),
                      !.parses = IF job.mode = "local" THEN won ELSE <<>>,
                      !.allNodes = IF job.mode = "local" THEN RawNodes(won) ELSE <<>>,
                      !.urls = IF job.mode = "remote" THEN won ELSE <<>>,
                      !.updatedPollingState =
                          IF DOMAIN groupPollingState # {}
                          THEN [k \in {"group_polling_indices"} |-> groupPollingState]
                          ELSE @]
    /\ UNCHANGED <<polling_index, group_polling_indices>>
    /\ UNCHANGED pipeFrame /\ UNCHANGED toolVars

\* Remote mode, a selection: the URLs of the selected sources, not fetched.
CollectUrls ==
    /\ job.pc = "selected"
    /\ job.mode = "remote"
    /\ job.type = "selection"
    /\ Undefined \notin Range(job.selectedSources)
    /\ job' = [job EXCEPT !.pc = "sourced", !.urls = job.selectedSources]
    /\ UNCHANGED <<polling_index, group_polling_indices>>
    /\ UNCHANGED pipeFrame /\ UNCHANGED toolVars

\* if (Object.keys(updatedPollingState).length > 0) waitUntil(UPDATE profiles ...)
IssueWriteBackJob ==
    /\ job.pc = "sourced"
    /\ job' = [job EXCEPT
                  !.pc = "written",
                  !.write = IF DOMAIN job.updatedPollingState # {} THEN "pending" ELSE "none"]
    /\ UNCHANGED <<polling_index, group_polling_indices>>
    /\ UNCHANGED pipeFrame /\ UNCHANGED toolVars

\* The URL of the synthetic subscription that serves the manual nodes.
NodesUrl == 0

\* applyAllRules: the enabled profile rules on the merged list, when there are any.
applyAllRules(nodes) ==
    LET profileRules == EnabledRules(ruleTables.profile)
    IN  IF profileRules # <<>> THEN applySubscriptionRules(nodes, profileRules)
        ELSE nodes

\* The name prefix of one node: the subscription name, else for a manual
\* node its group name, else the custom manual prefix.
prefixNode_CustomFirst(node) ==
    LET prefixSettings == node_prefix_settings
    IN  IF prefixSettings.enable_subscription_prefix /\ node.subscriptionName # 0
        THEN [node EXCEPT !.name = <<ToString(node.subscriptionName), " - ">> \o @]
        ELSE IF node.isManual /\ prefixSettings.manual_node_prefix # ""
        THEN [node EXCEPT !.name = <<prefixSettings.manual_node_prefix, " - ">> \o @]
        ELSE IF node.isManual /\ prefixSettings.enable_group_name_prefix
                /\ node.group_name # ""
        THEN [node EXCEPT !.name = <<node.group_name, " - ">> \o @]
        ELSE node

prefixNode(node) ==
    LET prefixSettings == node_prefix_settings
    IN  IF prefixSettings.enable_subscription_prefix /\ node.subscriptionName # 0
        THEN [node EXCEPT !.name = <<ToString(node.subscriptionName), " - ">> \o @]
        ELSE IF node.isManual /\ prefixSettings.enable_group_name_prefix
                /\ node.group_name # ""
        THEN [node EXCEPT !.name = <<node.group_name, " - ">> \o @]
        ELSE IF node.isManual /\ prefixSettings.manual_node_prefix # ""
        THEN [node EXCEPT !.name = <<prefixSettings.manual_node_prefix, " - ">> \o @]
        ELSE node

\* finalUrlParts: the subscription URLs and, when there are manual links,
\* the synthetic URL, first under manual_nodes_first and last otherwise.
finalUrlParts_AlwaysNodesUrl(subscriptionUrls) ==
    IF node_prefix_settings.manual_nodes_first THEN <<NodesUrl>> \o subscriptionUrls
    ELSE Append(subscriptionUrls, NodesUrl)

finalUrlParts(subscriptionUrls) ==
    IF node_links = <<>> THEN subscriptionUrls
    ELSE IF node_prefix_settings.manual_nodes_first THEN <<NodesUrl>> \o subscriptionUrls
    ELSE Append(subscriptionUrls, NodesUrl)

\* Local mode: the manual nodes are appended, applyAllRules runs on the
\* merged list and the name prefixes are set. Remote mode: the manual links
\* become one more URL.
MergeManualNodes ==
    /\ job.pc = "written"
    /\ LET manualNodes == [i \in 1..Len(node_links) |-> ManualNode(node_links[i])]
           profileRules == EnabledRules(ruleTables.profile)
           entry == [scope |-> "profile", sub |-> 0, rules |-> RuleIds(profileRules)]
           ruled == applyAllRules(job.allNodes \o manualNodes)
       IN  job' = [job EXCEPT
                      !.pc = "merged",
                      !.allNodes = IF job.mode = "local"
                                   THEN [i \in 1..Len(ruled) |-> prefixNode(ruled[i])]
                                   ELSE @,
                      !.log = IF job.mode = "local" /\ profileRules # <<>>
                              THEN Append(@, entry) ELSE @,
                      !.urls = IF job.mode = "remote" THEN finalUrlParts(@) ELSE @]
    /\ UNCHANGED <<polling_index, group_polling_indices>>
    /\ UNCHANGED pipeFrame /\ UNCHANGED toolVars

\* The catch of generateSubscription: 500 with e.message; e.stack is logged only.
catchHandler_WithStack ==
    [status |-> 500, kind |-> "text", body |-> <<"internal server error", "e.message", "e.stack">>]

catchHandler ==
    [status |-> 500, kind |-> "text", body |-> <<"internal server error", "e.message">>]

\* allNodes.map(regenerateLink).filter(Boolean): a node without protocol
\* regenerates to '' and is dropped.
localContent(allNodes) ==
    LET kept == SelectSeq(allNodes, LAMBDA node : node.parsed)
    IN  [i \in 1..Len(kept) |-> kept[i].name]

\* The request to the conversion service and what mainLogic returns after it.
converterResult(converter) ==
    CASE converter = "no_assets" ->
            [status |-> 500, kind |-> "text", body |-> <<"subconverter assets not found">>]
      [] converter = "unreachable" -> catchHandler
      [] converter = "bad_status" ->
            [status |-> 502, kind |-> "text", body |-> <<"subconverter failed", "errorText">>]
      [] OTHER ->
            [status |-> 200, kind |-> "stream", body |-> <<"subResponse">>]

\* Whether mainLogic gets to the conversion service.
NeedsConverter(target) ==
    IF job.mode = "remote" THEN job.urls # <<>>
    ELSE job.allNodes # <<>> /\ target # "base64"

\* The result of generateSubscription for a request that got through the
\* pipeline. A result without status is answered with 200.
generateResult(target, converter) ==
    IF job.mode = "local" /\ job.allNodes = <<>>
    THEN [status |-> 404, kind |-> "text", body |-> <<"No nodes found for this profile.">>]
    ELSE IF job.mode = "local" /\ target = "base64"
    THEN [status |-> 200, kind |-> "text", body |-> localContent(job.allNodes)]
    ELSE IF job.mode = "remote" /\ job.urls = <<>>
    THEN [status |-> 404, kind |-> "text", body |-> <<"nothing generated">>]
    ELSE converterResult(converter)

\* The request to the conversion service is a fetch without signal or timer:
\* when the service never answers, mainLogic stays at the await.
RespondJob(target, converter) ==
    /\ job.pc = "merged"
    /\ ~isPreview
    /\ (converter = "none") <=> ~NeedsConverter(target)
    /\ LET r == generateResult(target, converter)
       IN  job' = IF converter = "never_answers"
                  THEN [job EXCEPT !.pc = "awaiting", !.target = target,
                                   !.converter = converter]
                  ELSE [job EXCEPT !.pc = "responded",
                                   !.target = target, !.converter = converter,
                                   !.thrown = (converter = "unreachable"),
                                   !.status = r.status, !.kind = r.kind, !.body = r.body]
    /\ UNCHANGED <<polling_index, group_polling_indices>>
    /\ UNCHANGED pipeFrame /\ UNCHANGED toolVars

\* if (isPreview): the nodes are returned as JSON. In remote mode every URL
\* of the converter input is fetched (a plain fetch; '' on failure), parsed
\* and passed through applyAllRules; in local mode the nodes are those of
\* generateProfileNodes(env, executionCtx, profile, true).
previewNodes(results) ==
    IF job.mode = "local" THEN job.allNodes
    ELSE LET manualNodes == [i \in 1..Len(node_links) |-> ManualNode(node_links[i])]
             ok == fetchedSources(job.urls, results)
             parsed(url) == IF url = NodesUrl THEN manualNodes ELSE ParsedNodes(url)
             Flat[k \in 0..Len(ok)] ==
                 IF k = 0 THEN <<>> ELSE Flat[k - 1] \o parsed(ok[k])
         IN  applyAllRules(Flat[Len(ok)])

RespondPreview(results) ==
    /\ job.pc = "merged"
    /\ isPreview
    /\ DOMAIN results = IF job.mode = "remote" THEN 1..Len(job.urls) ELSE {}
    /\ job' = [job EXCEPT !.pc = "responded", !.status = 200, !.kind = "json",
                          !.body = localContent(previewNodes(results))]
    /\ UNCHANGED <<polling_index, group_polling_indices>>
    /\ UNCHANGED pipeFrame /\ UNCHANGED toolVars

\* A statement inside mainLogic throws (a D1 query fails, a stored JSON does
\* not parse): the catch answers.
ThrowJob ==
    /\ job.pc \in {"selected", "fetched", "sourced", "written", "merged"}
    /\ job' = [job EXCEPT !.pc = "responded", !.thrown = TRUE,
                          !.status = catchHandler.status, !.kind = catchHandler.kind,
                          !.body = catchHandler.body]
    /\ UNCHANGED <<polling_index, group_polling_indices>>
    /\ UNCHANGED pipeFrame /\ UNCHANGED toolVars

\* The detached UPDATE completes: the fields of updatedPollingState are stored.
WriteApplyJob ==
    /\ job.write = "pending"
    /\ polling_index' =
          IF "polling_index" \in DOMAIN job.updatedPollingState
          THEN job.updatedPollingState.polling_index ELSE polling_index
    /\ group_polling_indices' =
          IF "group_polling_indices" \in DOMAIN job.updatedPollingState
          THEN job.updatedPollingState.group_polling_indices ELSE group_polling_indices
    /\ job' = [job EXCEPT !.write = "applied"]
    /\ UNCHANGED pipeFrame /\ UNCHANGED toolVars

WriteFailJob ==
    /\ job.write = "pending"
    /\ job' = [job EXCEPT !.write = "failed"]
    /\ UNCHANGED <<polling_index, group_polling_indices>>
    /\ UNCHANGED pipeFrame /\ UNCHANGED toolVars

FinishJob ==
    /\ job.pc = "responded"
    /\ job.write # "pending"
    /\ job' = IdleJob
    /\ UNCHANGED <<polling_index, group_polling_indices>>
    /\ UNCHANGED pipeFrame /\ UNCHANGED toolVars

----------------------------------------------------------------------------
\* The target client of a request (mainLogic of generateSubscription)

\* query.target, the format flags of the query (sb, surge, quanx, loon,
\* clash), the headers subconverter-request / subconverter-version, and the
\* keyword the lower-cased User-Agent contains.
QueryTargets == {"", "clash", "surge"}

QueryFlags == {"", "sb", "surge", "quanx", "loon", "clash"}

UserAgents ==
    {"", "mozilla", "subconverter", "nekobox", "cf-workers-sub",
     "sing-box", "surge", "quantumult", "loon", "clash"}

NoRequest == [target |-> "", flag |-> "", header |-> FALSE, ua |-> "", resolved |-> ""]

Requests ==
    [target : QueryTargets, flag : QueryFlags, header : BOOLEAN, ua : UserAgents,
     resolved : {""}]

targetClient(query, header, ua) ==
    IF query.target # "" THEN query.target
    ELSE LET isSubConverterRequest == header \/ ua = "subconverter"
         IN  IF ~isSubConverterRequest /\ ua # "nekobox" /\ ua # "cf-workers-sub"
             THEN IF ua = "sing-box" \/ query.flag = "sb" THEN "singbox"
                  ELSE IF ua = "surge" \/ query.flag = "surge" THEN "surge"
                  ELSE IF ua = "quantumult" \/ query.flag = "quanx" THEN "quantumultx"
                  ELSE IF ua = "loon" \/ query.flag = "loon" THEN "loon"
                  ELSE IF ua = "clash" \/ query.flag = "clash" THEN "clash"
                  ELSE "base64"
             ELSE "base64"

toolFrame ==
    <<subscription_ids, generation_mode, polling_index, gen, run,
      polling_threshold, group_polling_indices, gp,
      airportStrategy, ruleTables, node_links, node_prefix_settings, job>>

ResolveTarget ==
    /\ request.resolved = ""
    /\ request' = [request EXCEPT
                      !.resolved = targetClient([target |-> request.target,
                                                 flag |-> request.flag],
                                                request.header, request.ua)]
    /\ UNCHANGED <<pool, codec, isPreview, subscriptions>>
    /\ UNCHANGED toolFrame

----------------------------------------------------------------------------
\* The batch subscription update (executeSubscriptionUpdates of
\* SubscriptionsView.vue). Code between two awaits runs without interruption:
\* an action is one such stretch, with the promise reactions it triggers.

\* Largest number of subscriptions in one batch.
MaxTasks == 3

\* Largest values of updateSettings.concurrency and updateSettings.retries.
MaxConcurrency == 2

MaxRetries == 3

\* updateSettings.delay in ms: none, or one step of the input.
Delays == {0, 100}

NewTask ==
    [st |-> "new", i |-> 0, attempts |-> 0, waits |-> <<>>, result |-> "none",
     late |-> FALSE]

\* stale: the tasks of a batch that was aborted and replaced, which are still
\* running; staleLoop: executeSubscriptionUpdates of that batch has not
\* returned; controller: updateAbortController is set.
IdlePool ==
    [pc |-> "idle", count |-> 0, concurrency |-> 1, retries |-> 0, delay |-> 0,
     next |-> 0, task |-> [k \in 1..MaxTasks |-> NewTask],
     executing |-> {}, registered |-> {}, awaited |-> {}, aborted |-> FALSE,
     updateProgress |-> [current |-> 0, total |-> 0],
     updateLog |-> [success |-> <<>>, failed |-> <<>>, expiring |-> <<>>],
     stale |-> [k \in 1..MaxTasks |-> "none"], staleLoop |-> FALSE,
     controller |-> FALSE]

\* prepareAndShowUpdateModal(subs) with subs.length = count.
Prepared(P, count) ==
    [P EXCEPT !.count = count,
              !.updateLog = [success |-> <<>>, failed |-> <<>>, expiring |-> <<>>],
              !.updateProgress = [current |-> 0, total |-> count]]

Pools ==
    {Prepared([IdlePool EXCEPT !.concurrency = concurrency,
                               !.retries = retries, !.delay = delay], count) :
        count \in 1..MaxTasks, concurrency \in 1..MaxConcurrency,
        retries \in 0..MaxRetries, delay \in Delays}

\* The wait before retry i: setTimeout(resolve, 1000 * i).
backoff(i) == 1000 * i

\* handleUpdate(sub, true, signal) is called: one more attempt.
attempt(t, aborted) ==
    [t EXCEPT !.st = "request", !.attempts = @ + 1, !.late = @ \/ aborted]

\* The reactions p.finally(() => executing.delete(p)) that are registered on
\* settled promises run at the next await.
Drain(P) ==
    [P EXCEPT !.executing = {k \in @ : ~(P.task[k].st = "done" /\ k \in P.registered)}]

SettledIn(P, ids) == {k \in ids : P.task[k].st = "done"}

\* await Promise.allSettled(executing), then finally.
Settle(P) ==
    LET D == Drain(P)
    IN  IF SettledIn(P, P.executing) = P.executing
        THEN [D EXCEPT !.pc = "done", !.awaited = {}, !.controller = FALSE]
        ELSE [D EXCEPT !.pc = "settle", !.awaited = P.executing]

\* The for loop over updatePromises from the top of an iteration to its
\* next await.
RECURSIVE RunLoop(_)
RECURSIVE AfterDelay(_)
RECURSIVE AfterRace(_)
RunLoop(P) ==
    IF P.next = P.count \/ P.aborted THEN Settle(P)
    ELSE LET k == P.next + 1
             started == [P EXCEPT !.next = k,
                                  !.task[k] = attempt(@, P.aborted),
                                  !.executing = @ \cup {k}]
         IN  IF P.delay > 0 THEN Drain([started EXCEPT !.pc = "sleep"])
             ELSE AfterDelay(started)

\* if (executing.size >= concurrency) await Promise.race(executing)
AfterDelay(P) ==
    IF Cardinality(P.executing) >= P.concurrency
    THEN IF SettledIn(P, P.executing) # {} THEN AfterRace(Drain(P))
         ELSE [P EXCEPT !.pc = "race", !.awaited = P.executing]
    ELSE AfterRace(P)

\* p.finally(() => executing.delete(p)), then the next iteration.
AfterRace(P) ==
    RunLoop([P EXCEPT !.registered = @ \cup {P.next}, !.awaited = {}])

poolFrame == <<request, codec, isPreview, subscriptions>>

\* executeSubscriptionUpdates is called.
ExecuteUpdates ==
    /\ pool.pc = "idle"
    /\ pool' = RunLoop([pool EXCEPT !.controller = TRUE])
    /\ UNCHANGED poolFrame
    /\ UNCHANGED toolFrame

\* The timer of the submission delay fires.
DelayDone ==
    /\ pool.pc = "sleep"
    /\ pool' = AfterDelay(pool)
    /\ UNCHANGED poolFrame
    /\ UNCHANGED toolFrame

\* The promise of task k settles: its registered reaction runs, and the loop
\* goes on when it was waiting for it.
TaskSettled(P, k) ==
    LET D == Drain(P)
    IN  IF P.pc = "race" /\ k \in P.awaited THEN AfterRace(D)
        ELSE IF P.pc = "settle" /\ SettledIn(P, P.awaited) = P.awaited
        THEN [D EXCEPT !.pc = "done", !.awaited = {}, !.controller = FALSE]
        ELSE D

\* The continuation of await task() in updatePromises: the progress counter
\* and the list of the result.
Record(P, k, result) ==
    LET list == IF result \in {"success", "expiring"} THEN result ELSE "failed"
    IN  [P EXCEPT !.updateProgress.current = @ + 1,
                  !.updateLog[list] = Append(@, k)]

\* The request of handleUpdate returns: success ends the task (expiring: a
\* success whose subscription is below the expiry thresholds); a failure
\* ends it at the last retry or when the signal is aborted, and otherwise
\* starts the wait before the next attempt.
RequestDone(k, outcome) ==
    /\ pool.task[k].st = "request"
    /\ IF pool.aborted THEN outcome = "aborted"
       ELSE outcome \in {"success", "expiring", "failed"}
    /\ LET t == pool.task[k]
           after ==
               IF outcome \in {"success", "expiring"} \/ t.i = pool.retries
               THEN [t EXCEPT !.st = "done", !.result = outcome]
               ELSE IF pool.aborted
               THEN [t EXCEPT !.st = "done", !.i = @ + 1, !.result = "aborted"]
               ELSE [t EXCEPT !.st = "backoff", !.i = @ + 1,
                              !.waits = Append(@, backoff(t.i + 1))]
           P == [pool EXCEPT !.task[k] = after]
       IN  pool' = IF after.st = "done"
                   THEN TaskSettled(Record(P, k, after.result), k)
                   ELSE P
    /\ UNCHANGED poolFrame
    /\ UNCHANGED toolFrame

\* The timer of the wait before a retry fires: handleUpdate is called.
BackoffDone(k) ==
    /\ pool.task[k].st = "backoff"
    /\ pool' = [pool EXCEPT !.task[k] = attempt(@, pool.aborted)]
    /\ UNCHANGED poolFrame
    /\ UNCHANGED toolFrame

\* handleCancelUpdate: updateAbortController.abort() while the batch runs.
CancelUpdate ==
    /\ pool.pc \notin {"idle", "done"}
    /\ pool.controller
    /\ ~pool.aborted
    /\ pool' = [pool EXCEPT !.aborted = TRUE]
    /\ UNCHANGED poolFrame
    /\ UNCHANGED toolFrame

\* After handleCancelUpdate has closed the dialog, handleUpdateAll opens it
\* for a new batch: the log and the progress are replaced while the tasks of
\* the aborted batch that have not returned keep their closures.
PrepareUpdate(count) ==
    /\ pool.aborted
    /\ ~pool.staleLoop
    /\ pool' = [Prepared(IdlePool, count) EXCEPT
                   !.concurrency = pool.concurrency,
                   !.retries = pool.retries,
                   !.delay = pool.delay,
                   !.stale = [k \in 1..MaxTasks |->
                                 IF pool.task[k].st \in {"request", "backoff"}
                                 THEN pool.task[k].st ELSE "none"],
                   !.staleLoop = pool.pc # "done"]
    /\ UNCHANGED poolFrame
    /\ UNCHANGED toolFrame

\* The wait of a task of the aborted batch ends: handleUpdate is called with
\* the aborted signal.
StaleBackoffDone(k) ==
    /\ pool.stale[k] = "backoff"
    /\ pool' = [pool EXCEPT !.stale[k] = "request"]
    /\ UNCHANGED poolFrame
    /\ UNCHANGED toolFrame

\* The request of a task of the aborted batch returns: its continuation
\* counts and records it in the present updateProgress and updateLog.
StaleRequestDone(k) ==
    /\ pool.stale[k] = "request"
    /\ pool' = Record([pool EXCEPT !.stale[k] = "none"], k, "aborted")
    /\ UNCHANGED poolFrame
    /\ UNCHANGED toolFrame

\* executeSubscriptionUpdates of the aborted batch returns after its tasks:
\* finally { updateAbortController = null }.
StaleLoopDone ==
    /\ pool.staleLoop
    /\ \A k \in 1..MaxTasks : pool.stale[k] = "none"
    /\ pool' = [pool EXCEPT !.staleLoop = FALSE, !.controller = FALSE]
    /\ UNCHANGED poolFrame
    /\ UNCHANGED toolFrame

----------------------------------------------------------------------------
\* The node codec (parseNodeLinks and regenerateLink of utils/nodeParser).
\* A link is its scheme, the fields of its main part (userinfo, host and
\* port of a URL, the JSON object of a vmess link, the colon-separated part
\* of an ssr link), its query and its fragment. A value is a string or a
\* number, as JavaScript keeps them apart.

Str(v) == [t |-> "string", v |-> v]

Num(v) == [t |-> "number", v |-> v]

EmptyMap == [key \in {} |-> Str("")]

\* obj[key], undefined read as ''.
Field(obj, key) == IF key \in DOMAIN obj THEN obj[key] ELSE Str("")

Truthy(value) == value.v # "" /\ ~(value.t = "number" /\ value.v = "0")

\* a || b
Or(a, b) == IF Truthy(a) THEN a ELSE b

Without(obj, keys) == [key \in DOMAIN obj \ keys |-> obj[key]]

\* { ...a, ...b }
Spread(a, b) ==
    [key \in DOMAIN a \cup DOMAIN b |-> IF key \in DOMAIN b THEN b[key] ELSE a[key]]

\* The values as a URL or a joined string carries them: strings.
Strings(obj) == [key \in DOMAIN obj |-> Str(obj[key].v)]

\* Only the keys whose value is truthy.
Present(obj) == [key \in {k \in DOMAIN obj : Truthy(obj[k])} |-> obj[key]]

Protocols == {"vmess", "ss", "ssr", "trojan", "vless", "hysteria2", "tuic"}

\* The query keys of the corpus besides the ones a protocol defines.
QueryKeys == {"sni", "type"}

QueryValue == [sni |-> Str("a.example"), type |-> Str("ws")]

Fragments == {"", "node"}

\* The main part of the link of each protocol.
MainPart(protocol) ==
    CASE protocol = "vmess" ->
            [add |-> Str("h"), port |-> Num("443"), id |-> Str("u-1"), aid |-> Str("0")]
      [] protocol = "ss" ->
            [method |-> Str("aes"), password |-> Str("pw"), host |-> Str("h"),
             port |-> Str("443")]
      [] protocol = "ssr" ->
            [server |-> Str("h"), port |-> Str("443"), protocol |-> Str("origin"),
             method |-> Str("aes"), obfs |-> Str("plain"), password |-> Str("pw")]
      [] protocol = "tuic" ->
            [uuid |-> Str("u-1"), password |-> Str("pw"), host |-> Str("h"),
             port |-> Str("443")]
      [] OTHER ->
            [password |-> Str("pw"), host |-> Str("h"), port |-> Str("443")]

\* The links of the corpus: every one of them parses.
Links ==
    {[scheme |-> protocol,
      main |-> IF protocol = "vmess" /\ hash # ""
               THEN Spread(MainPart(protocol), [ps |-> Str(hash)])
               ELSE MainPart(protocol),
      query |-> IF protocol = "ssr" /\ hash # ""
                THEN Spread([key \in keys |-> QueryValue[key]], [remarks |-> Str(hash)])
                ELSE [key \in keys |-> QueryValue[key]],
      hash |-> IF protocol \in {"vmess", "ssr"} THEN "" ELSE hash] :
        protocol \in Protocols, keys \in SUBSET QueryKeys, hash \in Fragments}

ParsedNode(name, protocol, protocol_params, server, port, password) ==
    [name |-> name, protocol |-> protocol, protocol_params |-> protocol_params,
     server |-> server, port |-> port, password |-> password]

parseVmess(link) ==
    LET finalParams == Spread(link.main, link.query)
        name == Or(Field(finalParams, "ps"),
                   Or(Field(finalParams, "remarks"),
                      Or(Field(finalParams, "name"), Str("add:port"))))
        params == Without(finalParams, {"ps", "remarks", "name"})
    IN  ParsedNode(name.v, "vmess", params, params.add, Num(params.port.v), params.id)

parseHysteria2(link) ==
    LET name == Or(Str(link.hash), link.main.host)
        protocol_params == Put(link.query, "auth", link.main.password)
    IN  ParsedNode(name.v, "hysteria2", protocol_params, link.main.host,
                   Num(link.main.port.v), link.main.password)

genericUrlParser(link, protocol) ==
    LET name == Or(Str(link.hash), Or(Field(link.query, "name"), link.main.host))
        withServer == Put(link.query, "server",
                          Or(Field(link.query, "server"), link.main.host))
        withPort == Put(withServer, "port",
                        Or(Field(withServer, "port"), Num(link.main.port.v)))
        withCredentials ==
            CASE protocol = "ss" -> Put(withPort, "method", link.main.method)
              [] protocol = "tuic" -> Put(withPort, "uuid", link.main.uuid)
              [] OTHER -> withPort
        protocol_params == Put(withCredentials, "password", link.main.password)
    IN  ParsedNode(name.v, protocol, protocol_params, protocol_params.server,
                   Num(protocol_params.port.v), protocol_params.password)

parseSsr(link) ==
    LET main == link.main
        known == [server |-> main.server, port |-> Num(main.port.v),
                  protocol |-> main.protocol, method |-> main.method,
                  obfs |-> main.obfs, password |-> main.password,
                  cipher |-> main.method]
        renamed(key) == CASE key = "protoparam" -> "protocol-param"
                          [] key = "obfsparam" -> "obfs-param"
                          [] OTHER -> key
        others == DOMAIN link.query \ {"remarks"}
        fromQuery == [key \in {renamed(k) : k \in others} |->
                         link.query[CHOOSE k \in others : renamed(k) = key]]
        name == Or(Field(link.query, "remarks"), Str("server:port"))
        protocol_params == Put(Spread(known, fromQuery), "remarks", name)
    IN  ParsedNode(name.v, "ssr", protocol_params, main.server, Num(main.port.v),
                   main.password)

\* parseNodeLinks on one link.
parseNodeLinks(link) ==
    CASE link.scheme = "vmess" -> parseVmess(link)
      [] link.scheme = "ssr" -> parseSsr(link)
      [] link.scheme = "hysteria2" -> parseHysteria2(link)
      [] OTHER -> genericUrlParser(link, link.scheme)

Link(scheme, main, query, hash) ==
    [scheme |-> scheme, main |-> main, query |-> query, hash |-> hash]

regenerateLink(node) ==
    LET params == node.protocol_params
    IN  CASE node.protocol = "vmess" ->
                Link("vmess", Put(params, "ps", Str(node.name)), EmptyMap, "")
          [] node.protocol = "ss" ->
                Link("ss",
                     [method |-> Or(Field(params, "method"), Field(params, "cipher")),
                      password |-> Or(Field(params, "password"), node.password),
                      host |-> Str(node.server.v), port |-> Str(node.port.v)],
                     EmptyMap, node.name)
          [] node.protocol = "ssr" ->
                Link("ssr",
                     Strings([server |-> params.server, port |-> params.port,
                              protocol |-> params.protocol,
                              method |-> Or(Field(params, "method"), Field(params, "cipher")),
                              obfs |-> params.obfs, password |-> params.password]),
                     Spread([remarks |-> Str(node.name)],
                            Present([group |-> Field(params, "group"),
                                     protoparam |-> Field(params, "protocol-param"),
                                     obfsparam |-> Field(params, "obfs-param")])),
                     "")
          [] node.protocol \in {"trojan", "vless"} ->
                Link(node.protocol,
                     Strings([password |-> Or(Field(params, "password"), node.password),
                              host |-> Or(Field(params, "server"), node.server),
                              port |-> Or(Field(params, "port"), node.port)]),
                     Strings(Without(params, {"password", "server", "port", "name"})),
                     node.name)
          [] node.protocol = "hysteria2" ->
                Link("hysteria2",
                     Strings([password |-> node.password, host |-> node.server,
                              port |-> node.port]),
                     Strings(Without(params, {"auth"})), node.name)
          [] node.protocol = "tuic" ->
                Link("tuic",
                     Strings([uuid |-> params.uuid, password |-> node.password,
                              host |-> node.server, port |-> node.port]),
                     Strings(Without(params, {"uuid"})), node.name)

NoCodec == [pc |-> "none"]

codecFrame == <<request, pool, isPreview, subscriptions>>

\* parseNodeLinks(u)
ParseLink ==
    /\ codec.pc = "link"
    /\ codec' = [codec EXCEPT !.pc = "parsed", !.first = parseNodeLinks(codec.link)]
    /\ UNCHANGED codecFrame
    /\ UNCHANGED toolFrame

\* regenerateLink(parse(u))
RegenerateLink ==
    /\ codec.pc = "parsed"
    /\ codec' = [codec EXCEPT !.pc = "regenerated",
                              !.regenerated = regenerateLink(codec.first)]
    /\ UNCHANGED codecFrame
    /\ UNCHANGED toolFrame

\* parseNodeLinks(regenerateLink(parse(u)))
ReparseLink ==
    /\ codec.pc = "regenerated"
    /\ codec' = [codec EXCEPT !.pc = "reparsed",
                              !.second = parseNodeLinks(codec.regenerated)]
    /\ UNCHANGED codecFrame
    /\ UNCHANGED toolFrame

\* A list of lines handed to parseNodeLinks. The valid lines are the named
\* links of the corpus without further query keys.
ValidLines ==
    {link \in Links : DOMAIN link.query \cap QueryKeys = {}
                        /\ parseNodeLinks(link).name = "node"}

\* Largest number of valid lines in a list.
MaxLines == 2

\* The line with a defect: its scheme is not a supported one, its payload
\* does not decode (illegal base64, not a URL), or its server, port or
\* credential is empty.
Defective(link, defect) ==
    LET serverKey == CASE link.scheme = "vmess" -> "add"
                       [] link.scheme = "ssr" -> "server"
                       [] OTHER -> "host"
        credentialKey == IF link.scheme = "vmess" THEN "id" ELSE "password"
    IN  CASE defect = "scheme" -> [link EXCEPT !.scheme = "socks5"]
          [] defect = "encoding" -> [link EXCEPT !.main = EmptyMap]
          [] defect = "server" -> [link EXCEPT !.main[serverKey] = Str("")]
          [] defect = "port" -> [link EXCEPT !.main["port"] = Str("")]
          [] defect = "credential" -> [link EXCEPT !.main[credentialKey] = Str("")]

\* One bad line among one to MaxLines valid ones, at any position.
LineLists ==
    LET badLines ==
            {Defective(link, defect) :
                link \in ValidLines,
                defect \in {"scheme", "encoding", "server", "port", "credential"}}
        insertAt(seq, i, elem) ==
            SubSeq(seq, 1, i - 1) \o <<elem>> \o SubSeq(seq, i, Len(seq))
    IN  UNION {{insertAt(valid, i, bad) :
                    valid \in [1..n -> ValidLines], i \in 1..(n + 1), bad \in badLines} :
               n \in 1..MaxLines}

\* Whether the parser of the line's scheme returns a node: no parser is
\* tried for an unsupported scheme, an exception inside a parser is caught
\* there, and each parser returns null on what its own checks reject.
yieldsNode(link) ==
    CASE link.scheme \notin Protocols -> FALSE
      [] link.main = EmptyMap -> FALSE
      [] link.scheme = "vmess" ->
            /\ Truthy(Field(link.main, "add"))
            /\ Truthy(Field(link.main, "port"))
            /\ Truthy(Field(link.main, "id"))
      [] link.scheme = "hysteria2" ->
            /\ Truthy(link.main.password)
            /\ Truthy(link.main.host)
            /\ Truthy(Num(link.main.port.v))
      [] link.scheme = "ssr" -> TRUE
      [] OTHER ->
            LET params == genericUrlParser(link, link.scheme).protocol_params
            IN  /\ Truthy(params.server)
                /\ Truthy(params.port)
                /\ Truthy(params.password)
                /\ link.scheme = "ss" => Truthy(params.method)
                /\ link.scheme = "tuic" => Truthy(params.uuid)

\* parseNodeLinks on a list of lines: the nodes of the lines that yield one.
parsedNodes(links) ==
    LET kept == SelectSeq(links, yieldsNode)
    IN  [i \in 1..Len(kept) |-> parseNodeLinks(kept[i])]

\* parseNodeLinks(linksText)
ParseLines ==
    /\ codec.pc = "lines"
    /\ codec' = [codec EXCEPT !.pc = "listed", !.parsedNodes = parsedNodes(codec.links)]
    /\ UNCHANGED codecFrame
    /\ UNCHANGED toolFrame

----------------------------------------------------------------------------
\* Specifications

Init ==
    /\ subscription_ids \in {1..n : n \in 1..MaxSubs}
    /\ generation_mode \in GenerationModes
    /\ polling_index = 0
    /\ gen = [g \in Gens |-> IdleGen]
    /\ run = NoRun
    /\ polling_threshold = 0
    /\ group_polling_indices = NoPollingState
    /\ gp = IdleProbe
    /\ airportStrategy = "polling (request)"
    /\ ruleTables = NoRules
    /\ node_links = <<>>
    /\ node_prefix_settings = NoPrefix
    /\ job = IdleJob
    /\ request = NoRequest
    /\ pool = IdlePool
    /\ codec = NoCodec
    /\ isPreview = FALSE
    /\ subscriptions = AllSubscriptions

Next ==
    \/ \E g \in Gens, fresh \in BOOLEAN : LoadProfile(g, fresh)
    \/ \E g \in Gens, content \in {"ok", "null"} : FetchContent(g, content)
    \/ \E g \in Gens : IssueWriteBack(g)
    \/ \E g \in Gens, target \in {"base64", "clash"},
          converter \in {"none", "ok", "bad_status", "unreachable"} :
            Respond(g, target, converter)
    \/ \E g \in Gens : WriteApply(g)
    \/ \E g \in Gens : WriteFail(g)
    \/ \E g \in Gens : Finish(g)
    \/ \E n \in 1..MaxSubs : UpdateProfile(n)

Spec == Init /\ [][Next]_vars

\* One client request (slot g1) in local mode and the request the conversion
\* service makes back to the same URL (slot g2, with b64=1).
InitCallback ==
    /\ Init
    /\ generation_mode = "local"

NextCallback ==
    \/ gen["g1"].pc = "idle" /\ gen["g2"].pc = "idle" /\ LoadProfile("g1", TRUE)
    \/ \E g \in Gens, content \in {"ok", "null"} : FetchContent(g, content)
    \/ \E g \in Gens : IssueWriteBack(g)
    \/ \E target \in {"base64", "clash"} : AnswerLocal("g1", FALSE, target)
    \/ \E converter \in {"bad_status", "unreachable"} : Respond("g1", "clash", converter)
    \/ Callback("g1", "g2")
    \/ \E target \in {"base64", "clash"} : AnswerLocal("g2", TRUE, target)
    \/ ConverterAnswers("g1", "g2")
    \/ \E g \in Gens : WriteApply(g)
    \/ \E g \in Gens : WriteFail(g)
    \/ gen["g2"].pc = "idle" /\ Finish("g1")
    \/ gen["g1"].pc # "converting" /\ Finish("g2")

SpecCallback == InitCallback /\ [][NextCallback]_vars

InitGroup ==
    /\ subscription_ids \in Selections
    /\ generation_mode \in GenerationModes
    /\ polling_threshold \in 0..MaxThreshold
    /\ group_polling_indices = NoPollingState
    /\ gp = IdleProbe
    /\ polling_index = 0
    /\ gen = [g \in Gens |-> IdleGen]
    /\ run = NoRun
    /\ airportStrategy = "polling (group_request)"
    /\ ruleTables = NoRules
    /\ node_links = <<>>
    /\ node_prefix_settings = NoPrefix
    /\ job = IdleJob
    /\ request = NoRequest
    /\ pool = IdlePool
    /\ codec = NoCodec
    /\ isPreview = FALSE
    /\ subscriptions = AllSubscriptions

NextGroup ==
    \/ LoadProfileGroup
    \/ \E groupId \in Groups : \E index \in 0..(Len(GroupSubs[groupId]) - 1) :
          StartProbeLocal(groupId, index)
    \/ \E groupId \in Groups : \E index \in 0..(Len(GroupSubs[groupId]) - 1) :
          StartProbeRemote(groupId, index)
    \/ \E groupId \in Groups, content \in {"ok", "null"} :
          \E index \in 0..(Len(GroupSubs[groupId]) - 1) :
              FinishProbe(groupId, index, content)
    \/ IssueWriteBackGroup
    \/ WriteApplyGroup
    \/ WriteFailGroup
    \/ FinishGroup
    \/ \E subIds \in Selections : UpdateProfileGroup(subIds)

SpecGroup == InitGroup /\ [][NextGroup]_vars

\* Repeated generations of one profile under group rotation, one at a time.
\* The subscriptions of AlwaysAnswers return content on every fetch
\* (fetchSubscriptionContent), the others may or may not.
ProbeContents(groupId, index) ==
    LET AlwaysAnswers ==
            {At(GroupSubs[g], Len(GroupSubs[g]) - 1) : g \in Groups}
    IN  IF /\ groupId \in ProbedGroups
           /\ index < Len(SetOf(groupId).candidates)
           /\ At(SetOf(groupId).candidates, index) \in AlwaysAnswers
        THEN {"ok"}
        ELSE {"ok", "null"}

InitRepeat ==
    /\ subscription_ids = AllSubscriptions
    /\ generation_mode \in GenerationModes
    /\ polling_threshold = MaxThreshold
    /\ group_polling_indices = NoPollingState
    /\ gp = IdleProbe
    /\ polling_index = 0
    /\ gen = [g \in Gens |-> IdleGen]
    /\ run = NoRun
    /\ airportStrategy = "polling (group_request)"
    /\ ruleTables = NoRules
    /\ node_links = <<>>
    /\ node_prefix_settings = NoPrefix
    /\ job = IdleJob
    /\ request = NoRequest
    /\ pool = IdlePool
    /\ codec = NoCodec
    /\ isPreview = FALSE
    /\ subscriptions = AllSubscriptions

NextRepeat ==
    \/ LoadProfileGroup
    \/ \E groupId \in Groups : \E index \in 0..(Len(GroupSubs[groupId]) - 1) :
          StartProbeLocal(groupId, index)
    \/ \E groupId \in Groups : \E index \in 0..(Len(GroupSubs[groupId]) - 1) :
          StartProbeRemote(groupId, index)
    \/ \E groupId \in Groups : \E index \in 0..(Len(GroupSubs[groupId]) - 1) :
          \E content \in ProbeContents(groupId, index) :
              FinishProbe(groupId, index, content)
    \/ IssueWriteBackGroup
    \/ WriteApplyGroup
    \/ WriteFailGroup
    \/ FinishGroup

\* Every request runs to its end and the next one arrives.
SpecRepeat == InitRepeat /\ [][NextRepeat]_vars /\ WF_vars(NextRepeat)

\* The clock and the random numbers a request can see; they are drawn only
\* for the strategy that reads them.
Hours ==
    IF airportStrategy = "polling (hourly)" THEN 0..(HoursPerDay - 1) ELSE {0}

Randoms ==
    IF airportStrategy = "random" THEN [Groups -> 0..(RandomSteps - 1)]
    ELSE {[groupId \in Groups |-> 0]}

InitPipeline ==
    /\ subscription_ids \in Selections
    /\ generation_mode \in GenerationModes
    /\ airportStrategy \in Strategies
    /\ ruleTables \in RuleTables
    /\ node_links \in ManualLinks
    /\ node_prefix_settings = NoPrefix
    /\ polling_threshold = MaxThreshold
    /\ polling_index \in {0, 1}
    /\ group_polling_indices = NoPollingState
    /\ job = IdleJob
    /\ request = NoRequest
    /\ pool = IdlePool
    /\ codec = NoCodec
    /\ isPreview = FALSE
    /\ subscriptions = AllSubscriptions
    /\ gen = [g \in Gens |-> IdleGen]
    /\ run = NoRun
    /\ gp = IdleProbe

NextPipeline ==
    \/ \E hour \in Hours, rnd \in Randoms : LoadJob(hour, rnd)
    \/ \E results \in [1..Len(job.selectedSources) -> {"ok", "null"}] :
          FetchSelected(results)
    \/ ApplySourceRules
    \/ \E winners \in [Groups -> -1..(MaxThreshold - 1)], completion \in CompletionOrders :
          ProbeGroupsJob(winners, completion)
    \/ CollectUrls
    \/ IssueWriteBackJob
    \/ MergeManualNodes
    \/ \E target \in {"base64", "clash"},
          converter \in {"none", "ok", "bad_status", "unreachable", "no_assets",
                         "never_answers"} :
            RespondJob(target, converter)
    \/ ThrowJob
    \/ WriteApplyJob
    \/ WriteFailJob
    \/ FinishJob

SpecPipeline == InitPipeline /\ [][NextPipeline]_vars

\* One generation with every name-prefix policy and manual nodes with and
\* without a node group, without rules.
InitCompose ==
    /\ subscription_ids \in Selections
    /\ generation_mode \in GenerationModes
    /\ airportStrategy \in Strategies
    /\ ruleTables = NoRules
    /\ node_links \in ManualLinksCompose
    /\ node_prefix_settings \in PrefixSettings
    /\ polling_threshold = MaxThreshold
    /\ polling_index = 0
    /\ group_polling_indices = NoPollingState
    /\ job = IdleJob
    /\ request = NoRequest
    /\ pool = IdlePool
    /\ codec = NoCodec
    /\ isPreview = FALSE
    /\ subscriptions = AllSubscriptions
    /\ gen = [g \in Gens |-> IdleGen]
    /\ run = NoRun
    /\ gp = IdleProbe

SpecCompose == InitCompose /\ [][NextPipeline]_vars

\* One preview request (GET /api/profiles/:id/preview-nodes) of a profile
\* without rules, under every strategy and both modes.
InitPreview ==
    /\ subscription_ids \in Selections
    /\ generation_mode \in GenerationModes
    /\ airportStrategy \in Strategies
    /\ ruleTables = NoRules
    /\ node_links \in ManualLinks
    /\ node_prefix_settings = NoPrefix
    /\ polling_threshold = MaxThreshold
    /\ polling_index \in {0, 1}
    /\ group_polling_indices = NoPollingState
    /\ job = IdleJob
    /\ request = NoRequest
    /\ pool = IdlePool
    /\ codec = NoCodec
    /\ isPreview = TRUE
    /\ subscriptions = AllSubscriptions
    /\ gen = [g \in Gens |-> IdleGen]
    /\ run = NoRun
    /\ gp = IdleProbe

NextPreview ==
    \/ \E hour \in Hours, rnd \in Randoms : LoadJob(hour, rnd)
    \/ \E results \in [1..Len(job.selectedSources) -> {"ok", "null"}] :
          FetchSelected(results)
    \/ ApplySourceRules
    \/ \E winners \in [Groups -> -1..(MaxThreshold - 1)], completion \in CompletionOrders :
          ProbeGroupsJob(winners, completion)
    \/ CollectUrls
    \/ IssueWriteBackJob
    \/ MergeManualNodes
    \/ \E results \in UNION {[1..n -> {"ok", "null"}] : n \in 0..(MaxSubs + 1)} :
          RespondPreview(results)
    \/ ThrowJob
    \/ WriteApplyJob
    \/ WriteFailJob
    \/ FinishJob

SpecPreview == InitPreview /\ [][NextPreview]_vars

\* One generation under a polling strategy, for cursors left over from an
\* earlier, larger selection and with any of the listed subscriptions
\* deleted from table subscriptions.
InitCursor ==
    /\ subscription_ids \in { {1, 2, 3}, {1, 3, 6}, {6, 7} }
    /\ subscriptions \in {AllSubscriptions \ gone : gone \in SUBSET subscription_ids}
    /\ generation_mode \in GenerationModes
    /\ airportStrategy \in {"polling (request)", "polling (hourly)", "polling (group_request)"}
    /\ ruleTables = NoRules
    /\ node_links = <<>>
    /\ node_prefix_settings = NoPrefix
    /\ polling_threshold = MaxThreshold
    /\ polling_index \in 0..MaxSubs
    /\ group_polling_indices \in
          {NoPollingState, [k \in {"A"} |-> 4],
           [k \in {"A", "B"} |-> IF k = "A" THEN 4 ELSE 1]}
    /\ job = IdleJob
    /\ request = NoRequest
    /\ pool = IdlePool
    /\ codec = NoCodec
    /\ isPreview = FALSE
    /\ gen = [g \in Gens |-> IdleGen]
    /\ run = NoRun
    /\ gp = IdleProbe

SpecCursor == InitCursor /\ [][NextPipeline]_vars

\* Two requests of one profile under group rotation that may overlap: one
\* followed probe by probe (gp), the other through the pipeline (job).
InitOverlap ==
    /\ subscription_ids = {1, 2, 6, 7}
    /\ generation_mode = "remote"
    /\ polling_threshold = 1
    /\ group_polling_indices = NoPollingState
    /\ gp = IdleProbe
    /\ polling_index = 0
    /\ gen = [g \in Gens |-> IdleGen]
    /\ run = NoRun
    /\ airportStrategy = "polling (group_request)"
    /\ ruleTables = NoRules
    /\ node_links = <<>>
    /\ node_prefix_settings = NoPrefix
    /\ job = IdleJob
    /\ request = NoRequest
    /\ pool = IdlePool
    /\ codec = NoCodec
    /\ isPreview = FALSE
    /\ subscriptions = AllSubscriptions

NextOverlap ==
    \/ LoadProfileGroup
    \/ \E groupId \in Groups : \E index \in 0..(Len(GroupSubs[groupId]) - 1) :
          StartProbeRemote(groupId, index)
    \/ \E groupId \in Groups, content \in {"ok", "null"} :
          \E index \in 0..(Len(GroupSubs[groupId]) - 1) :
              FinishProbe(groupId, index, content)
    \/ IssueWriteBackGroup
    \/ WriteApplyGroup
    \/ WriteFailGroup
    \/ FinishGroup
    \/ LoadJob(0, [groupId \in Groups |-> 0])
    \/ \E winners \in [Groups -> -1..(MaxThreshold - 1)], completion \in CompletionOrders :
          ProbeGroupsJob(winners, completion)
    \/ IssueWriteBackJob
    \/ MergeManualNodes
    \/ \E converter \in {"none", "ok"} : RespondJob("clash", converter)
    \/ WriteApplyJob
    \/ WriteFailJob
    \/ FinishJob

SpecOverlap == InitOverlap /\ [][NextOverlap]_vars

\* The quiet profile every tool specification starts from.
InitQuiet ==
    /\ subscription_ids = {1}
    /\ generation_mode = "local"
    /\ polling_index = 0
    /\ gen = [g \in Gens |-> IdleGen]
    /\ run = NoRun
    /\ polling_threshold = 0
    /\ group_polling_indices = NoPollingState
    /\ gp = IdleProbe
    /\ airportStrategy = "all"
    /\ ruleTables = NoRules
    /\ node_links = <<>>
    /\ node_prefix_settings = NoPrefix
    /\ job = IdleJob

InitTarget ==
    /\ InitQuiet
    /\ request \in Requests
    /\ pool = IdlePool
    /\ codec = NoCodec
    /\ isPreview = FALSE
    /\ subscriptions = AllSubscriptions

NextTarget == ResolveTarget

SpecTarget == InitTarget /\ [][NextTarget]_vars

InitBatch ==
    /\ InitQuiet
    /\ request = NoRequest
    /\ pool \in Pools
    /\ codec = NoCodec
    /\ isPreview = FALSE
    /\ subscriptions = AllSubscriptions

NextBatch ==
    \/ ExecuteUpdates
    \/ DelayDone
    \/ \E k \in 1..MaxTasks, outcome \in {"success", "expiring", "failed", "aborted"} :
          RequestDone(k, outcome)
    \/ \E k \in 1..MaxTasks : BackoffDone(k)
    \/ CancelUpdate

SpecBatch == InitBatch /\ [][NextBatch]_vars

\* The batch update with a second batch prepared after an abort: one retry,
\* no submission delay.
InitRestart ==
    /\ InitQuiet
    /\ request = NoRequest
    /\ pool \in {P \in Pools : P.retries = 1 /\ P.delay = 0}
    /\ codec = NoCodec
    /\ isPreview = FALSE
    /\ subscriptions = AllSubscriptions

NextRestart ==
    \/ ExecuteUpdates
    \/ \E k \in 1..MaxTasks, outcome \in {"success", "expiring", "failed", "aborted"} :
          RequestDone(k, outcome)
    \/ \E k \in 1..MaxTasks : BackoffDone(k)
    \/ CancelUpdate
    \/ \E count \in 1..MaxTasks : PrepareUpdate(count)
    \/ \E k \in 1..MaxTasks : StaleBackoffDone(k)
    \/ \E k \in 1..MaxTasks : StaleRequestDone(k)
    \/ StaleLoopDone

SpecRestart == InitRestart /\ [][NextRestart]_vars

InitCodec ==
    /\ InitQuiet
    /\ request = NoRequest
    /\ pool = IdlePool
    /\ isPreview = FALSE
    /\ subscriptions = AllSubscriptions
    /\ codec \in {[pc |-> "link", link |-> link, first |-> EmptyMap,
                    regenerated |-> EmptyMap, second |-> EmptyMap] : link \in Links}

NextCodec ==
    \/ ParseLink
    \/ RegenerateLink
    \/ ReparseLink

SpecCodec == InitCodec /\ [][NextCodec]_vars

InitLines ==
    /\ InitQuiet
    /\ request = NoRequest
    /\ pool = IdlePool
    /\ isPreview = FALSE
    /\ subscriptions = AllSubscriptions
    /\ codec \in {[pc |-> "lines", links |-> links, parsedNodes |-> <<>>] :
                    links \in LineLists}

NextLines == ParseLines

SpecLines == InitLines /\ [][NextLines]_vars

----------------------------------------------------------------------------
\* Properties of the per-request rotation (Spec)

Distinct(seq) == \A i, j \in 1..Len(seq) : i # j => seq[i] # seq[j]

\* A series of N generations that did not overlap, with every write-back
\* completed and no profile edit in between, is over.
FullRun == run.ok /\ Quiescent /\ Len(run.sels) = run.n

\* C1 (as stated): after N consecutive generations the N selected
\* subscriptions are pairwise distinct and polling_index equals the value it
\* had before the first generation.
C1_Original ==
    FullRun => /\ Distinct(run.sels)
               /\ polling_index = run.start

\* C1 (amended): after N consecutive generations the N selected subscriptions
\* are pairwise distinct and polling_index equals the value it had before the
\* first generation taken modulo N (that value itself when it was below N).
C1_RotationReturns ==
    FullRun => /\ Distinct(run.sels)
               /\ polling_index = run.start % run.n

C1_Witness ==
    /\ FullRun
    /\ run.n = 3
    /\ run.start = 1
    /\ polling_index = 1

\* C5: the write-back stores the value computed from the request's own
\* snapshot, whatever the row holds by then: two generations that read the
\* same cursor select the same subscription and, once both write-backs have
\* completed, the cursor is one position past the value they read, not two.
C5_LastWriteWins ==
    \A g, h \in Gens :
        ( /\ g # h
          /\ gen[g].write = "applied"
          /\ gen[h].write = "applied"
          /\ gen[g].startIndex = gen[h].startIndex
          /\ gen[g].allSubs = gen[h].allSubs )
        => /\ gen[g].selectedSources = gen[h].selectedSources
           /\ polling_index = (gen[g].startIndex + 1) % Len(gen[g].allSubs)

C5_Witness ==
    \E g, h \in Gens :
        /\ g # h
        /\ gen[g].write = "applied"
        /\ gen[h].write = "applied"
        /\ gen[g].startIndex = gen[h].startIndex
        /\ gen[g].allSubs = gen[h].allSubs
        /\ Len(gen[g].allSubs) >= 2
        /\ gen[g].selectedSources = gen[h].selectedSources

\* One generation ran alone, ended in an empty-result or failure response,
\* and its write-back completed.
FailedAlone == run.ok /\ Quiescent /\ Len(run.sels) = 1 /\ run.failed

C8_SelectorPerRequest ==
    \A g \in Gens :
        gen[g].pc # "idle" =>
            LET i == gen[g].startIndex
                N == Len(gen[g].allSubs)
            IN  /\ Len(gen[g].selectedSources) = 1
                /\ gen[g].selectedSources[1] = gen[g].allSubs[(i % N) + 1]
                /\ DOMAIN gen[g].updatedPollingState = {"polling_index"}
                /\ gen[g].updatedPollingState.polling_index = (i + 1) % N

C8_Witness ==
    \E g \in Gens :
        /\ gen[g].pc = "selected"
        /\ Len(gen[g].allSubs) = 2
        /\ gen[g].startIndex = 2
        /\ gen[g].selectedSources = <<1>>
        /\ gen[g].updatedPollingState.polling_index = 1

----------------------------------------------------------------------------
\* Properties of the group rotation (SpecGroup)

\* The selected subscriptions of a group in the running request, ORDER BY id.
SelectedOf(groupId) ==
    SelectSeq(GroupSubs[groupId], LAMBDA id : id \in gp.subIds)

\* What a group contributed to the running request.
NodesOf(groupId) ==
    SelectSeq(gp.allNodes, LAMBDA id : id \in Range(GroupSubs[groupId]))

C3_AllFailedKeepsCursor ==
    \A groupId \in Groups :
        (gp.pc = "written" /\ groupId \in ProbedGroups /\ AllFailed(groupId)) =>
            /\ Get(gp.groupPollingState, groupId) = Get(gp.snapshot, groupId)
            /\ gp.write # "pending" =>
                  /\ Get(group_polling_indices, groupId) = Get(gp.snapshot, groupId)
                  /\ CandidateSet(groupId, gp.subIds, group_polling_indices, gp.threshold)
                       = SetOf(groupId)
            /\ NodesOf(groupId) = <<>>

C3_Witness ==
    /\ gp.pc = "written"
    /\ gp.write = "applied"
    /\ AllFailed("A")
    /\ Len(SetOf("A").candidates) = 2
    /\ Get(gp.snapshot, "A") = 2
    /\ Get(group_polling_indices, "A") = 2
    /\ gp.probe["B"].winner # -1
    /\ NodesOf("A") = <<>>

\* C4: the candidates of one group are probed serially: a candidate's fetch
\* has started only if every candidate before it has ended without content,
\* and no candidate after the first successful one is fetched.
C4_SerialWithinGroup ==
    \A groupId \in ProbedGroups :
        LET p == gp.probe[groupId]
        IN  /\ \A k \in 1..p.started : \A j \in 1..(k - 1) : p.results[j] = "null"
            /\ p.winner # -1 => p.started = p.winner + 1

\* C6: the candidate window of a group with G selected subscriptions and
\* cursor start holds min(threshold, G) subscriptions, those at positions
\* start, start + 1, ... modulo G of the group's selected subscriptions.
C6_WindowWraps ==
    \A i \in 1..Len(gp.candidateSets) :
        LET cs == gp.candidateSets[i]
            selected == SelectedOf(cs.groupId)
            G == Len(selected)
        IN  /\ Len(cs.candidates) = Min(gp.threshold, G)
            /\ \A j \in 1..Len(cs.candidates) :
                  cs.candidates[j] = At(selected, (cs.startIndex + j - 1) % G)

\* C10: in one generation at most threshold fetches are started for a group.
C10_ProbesBounded ==
    \A groupId \in Groups : gp.probe[groupId].started <= gp.threshold

C10_Witness ==
    /\ gp.pc = "written"
    /\ gp.threshold = 2
    /\ gp.subIds = {1, 2, 3, 4, 5, 6, 7}
    /\ AllFailed("A")
    /\ gp.probe["A"].started = 2
    /\ Len(GroupSubs["A"]) > gp.threshold


----------------------------------------------------------------------------
\* Properties of the generation pipeline (SpecPipeline)

StatelessStrategies == {"all", "random", "polling (hourly)"}

CursorsKept ==
    /\ polling_index' = polling_index
    /\ group_polling_indices' = group_polling_indices

\* C11: a generation under strategy all, random or polling-hourly issues no
\* cursor write, and no step changes polling_index or group_polling_indices.
C11_StatelessNeverWrites ==
    [][(airportStrategy \in StatelessStrategies) =>
          (CursorsKept /\ job'.write = "none")]_vars

C11_Witness ==
    /\ airportStrategy = "polling (hourly)"
    /\ job.pc = "responded"
    /\ job.status = 200
    /\ job.before.polling_index = 1
    /\ polling_index = 1
    /\ job.selectedSources # <<1>>

\* C12: under strategy random every group with a selected subscription gets
\* exactly one chosen source, a selected subscription of that group, and
\* nothing else is chosen.
C12_RandomOnePerGroup ==
    (airportStrategy = "random" /\ job.pc # "idle") =>
        LET sel == job.selectedSources
            nonEmpty == {groupId \in Groups :
                            subscription_ids \cap Range(GroupSubs[groupId]) # {}}
        IN  /\ Len(sel) = Cardinality(nonEmpty)
            /\ \A groupId \in nonEmpty :
                  /\ Cardinality({i \in 1..Len(sel) : GroupOf(sel[i]) = groupId}) = 1
                  /\ \E i \in 1..Len(sel) :
                        sel[i] \in subscription_ids \cap Range(GroupSubs[groupId])

C12_Witness ==
    /\ airportStrategy = "random"
    /\ job.pc = "selected"
    /\ subscription_ids = {1, 3, 6}
    /\ job.selectedSources = <<3, 6>>

Names(nodes) == [i \in 1..Len(nodes) |-> nodes[i].name]

ManualNodes == [i \in 1..Len(node_links) |-> ManualNode(node_links[i])]

\* The rules of a scope as a generation must see them, read three ways:
\* "compose" and "valid" from the enabled rows, "purged" from the table with
\* the disabled rows deleted.
RulesAs(rows, how) ==
    CASE how = "purged" -> OrderBySortOrder(SelectSeq(rows, LAMBDA rule : rule.enabled))
      [] how = "valid"  -> SelectSeq(EnabledRules(rows), LAMBDA rule : rule.valid)
      [] OTHER          -> EnabledRules(rows)

\* The composition of the single rules: rule n on the output of rules 1..n-1.
RECURSIVE LeftToRight(_, _)
LeftToRight(nodes, ruleList) ==
    IF ruleList = <<>> THEN nodes
    ELSE ApplyRule(ruleList[Len(ruleList)],
                   LeftToRight(nodes, SubSeq(ruleList, 1, Len(ruleList) - 1)))

RunAs(nodes, ruleList, how) ==
    IF how = "compose" THEN LeftToRight(nodes, ruleList)
    ELSE applySubscriptionRules(nodes, ruleList)

RECURSIVE ExpectedSources(_, _)
ExpectedSources(subIds, how) ==
    IF subIds = <<>> THEN <<>>
    ELSE LET subId == Head(subIds)
             cr == RulesAs(ruleTables.group[GroupOf(subId)], how)
                     \o RulesAs(ruleTables.sub[subId], how)
         IN  RunAs(ParsedNodes(subId), cr, how) \o ExpectedSources(Tail(subIds), how)

\* The node list of a local generation whose sources job.fetched answered.
ExpectedOutput(how) ==
    LET sourced == IF job.type = "selection" THEN ExpectedSources(job.fetched, how)
                   ELSE RawNodes(job.fetched)
    IN  RunAs(sourced \o ManualNodes, RulesAs(ruleTables.profile, how), how)

LocalMerged == job.pc = "merged" /\ job.mode = "local"

\* C13: in a local generation every contributing subscription with enabled
\* group or subscription rules has one engine call, with the enabled group
\* rules then the enabled subscription rules in ascending sort order, before
\* the profile pass; the profile rules are applied once, last.
C13_ScopeOrder ==
    LocalMerged =>
        LET profileRules == RuleIds(EnabledRules(ruleTables.profile))
            calls(subId) == {i \in 1..Len(job.log) :
                                job.log[i].scope = "source" /\ job.log[i].sub = subId}
            profileCalls == {i \in 1..Len(job.log) : job.log[i].scope = "profile"}
        IN  /\ \A subId \in Range(job.fetched) :
                  LET expected == RuleIds(EnabledRules(ruleTables.group[GroupOf(subId)]))
                                    \o RuleIds(EnabledRules(ruleTables.sub[subId]))
                  IN  expected # <<>> =>
                         /\ Cardinality(calls(subId)) = 1
                         /\ \A i \in calls(subId) : job.log[i].rules = expected
            /\ profileRules # <<>> =>
                  /\ profileCalls = {Len(job.log)}
                  /\ job.log[Len(job.log)].rules = profileRules

AllEnabledValid ==
    /\ \A i \in 1..Len(ruleTables.profile) : ruleTables.profile[i].valid
    /\ \A subId \in 1..7 : \A i \in 1..Len(ruleTables.sub[subId]) : ruleTables.sub[subId][i].valid

\* C14: the engine's output is the left-to-right composition of the single
\* rules; exclude "test", rename ^HK to HongKong, filter ^HongKong on
\* HK-01, test-02, US-03 gives HongKong-01 alone.
C14_LeftToRightPipeline ==
    (LocalMerged /\ AllEnabledValid) =>
        /\ job.allNodes = ExpectedOutput("compose")
        /\ (ruleTables = RulesExample /\ Len(job.fetched) = 1 /\ node_links = <<>>) =>
              Names(job.allNodes) = << <<"HongKong", "-01">> >>

C14_Witness ==
    /\ LocalMerged
    /\ ruleTables = RulesExample
    /\ job.fetched = <<1>>
    /\ node_links = <<>>
    /\ Names(job.allNodes) = << <<"HongKong", "-01">> >>

\* C15: a rule whose pattern or payload is invalid is skipped: the output is
\* the one of the same rule lists without the invalid rules.
C15_InvalidRuleSkipped ==
    (LocalMerged /\ ~AllEnabledValid) =>
        job.allNodes = ExpectedOutput("valid")

C15_Witness ==
    /\ LocalMerged
    /\ ruleTables = RulesInvalid
    /\ job.fetched = <<1, 3>>
    /\ ~job.thrown
    /\ Names(job.allNodes) = << <<"HongKong", "-01">>, <<"HongKong", "-01">> >>

\* C16: no disabled rule is handed to the engine, in any scope, and the
\* output is the one of the tables with the disabled rows deleted.
C16_DisabledNeverEvaluated ==
    LET disabled == {ruleTables.profile[i].id : i \in {i \in 1..Len(ruleTables.profile) :
                                                        ~ruleTables.profile[i].enabled}}
                    \cup UNION {{ruleTables.group[g][i].id :
                                    i \in {i \in 1..Len(ruleTables.group[g]) :
                                              ~ruleTables.group[g][i].enabled}} : g \in Groups}
                    \cup UNION {{ruleTables.sub[s][i].id :
                                    i \in {i \in 1..Len(ruleTables.sub[s]) :
                                              ~ruleTables.sub[s][i].enabled}} : s \in 1..7}
    IN  /\ \A i \in 1..Len(job.log) : Range(job.log[i].rules) \cap disabled = {}
        /\ LocalMerged => job.allNodes = ExpectedOutput("purged")

C16_Witness ==
    /\ LocalMerged
    /\ ruleTables = RulesScopes
    /\ job.type = "selection"
    /\ job.fetched = <<1, 6>>
    /\ node_links = <<"ok">>
    /\ Len(job.log) = 3

Answered == job.pc = "responded" /\ ~job.thrown

\* C17: a generation never answers 200 with an empty body; with no node
\* (local mode) or no URL (remote mode) it answers 404.
C17_NeverEmptySuccess ==
    Answered =>
        /\ job.status = 200 => job.body # <<>>
        /\ (job.mode = "local" /\ job.allNodes = <<>>) => job.status = 404
        /\ (job.mode = "remote" /\ job.urls = <<>>) => job.status = 404

\* C18: when the conversion service cannot be reached or answers with a
\* non-success status, the response is the gateway failure (502), not the
\* generic internal failure, and in the second case carries the upstream
\* status and body.
C18_GatewayFailure ==
    (job.pc = "responded" /\ job.converter \in {"unreachable", "bad_status"}) =>
        /\ job.status = 502
        /\ job.body # catchHandler.body
        /\ job.converter = "bad_status" =>
              /\ "errorText" \in Range(job.body)
              /\ "subResponse.status" \in Range(job.body)

\* The nodes of the selected sources that answered, each after its rules,
\* from source k on; a source whose fetch failed contributes nothing.
RECURSIVE SourcesAnswered(_)
SourcesAnswered(k) ==
    IF k > Len(job.selectedSources) THEN <<>>
    ELSE (IF job.results[k] = "ok"
          THEN ExpectedSources(<<job.selectedSources[k]>>, "enabled")
          ELSE <<>>) \o SourcesAnswered(k + 1)

\* C19: in local mode a failed fetch of a selected subscription leaves the
\* generation running: the source contributes no node, and the nodes of
\* the other sources and the manual nodes are in the node list and in the
\* response.
C19_FailedFetchNotFatal ==
    (job.mode = "local" /\ job.type = "selection") =>
        /\ job.pc \in {"sourced", "written"} => job.allNodes = SourcesAnswered(1)
        /\ job.pc = "merged" =>
              job.allNodes = RunAs(SourcesAnswered(1) \o ManualNodes,
                                   RulesAs(ruleTables.profile, "enabled"), "enabled")
        /\ (Answered /\ job.target = "base64" /\ job.allNodes # <<>>) =>
              /\ job.status = 200
              /\ job.body = localContent(job.allNodes)

C19_Witness ==
    /\ Answered
    /\ job.mode = "local"
    /\ airportStrategy = "all"
    /\ job.selectedSources = <<1, 3, 6>>
    /\ job.results = <<"ok", "null", "ok">>
    /\ node_links = <<"ok">>
    /\ ruleTables = NoRules
    /\ job.status = 200
    /\ Len(job.body) = 7

C21_EveryFetchBounded ==
    /\ job.pc # "awaiting"
    /\ \A i \in 1..Len(job.results) :
          job.results[i] = "null" => job.selectedSources[i] \notin Range(job.fetched)

RemoteMerged == job.pc = "merged" /\ job.mode = "remote"

\* The subscriptions a generation settled on: the selection, or under group
\* rotation the candidates that answered.
SelectedSubs == IF job.type = "selection" THEN job.selectedSources ELSE job.fetched

\* C22: in remote mode the input of the conversion service is the URLs of
\* the selected subscriptions in selection order plus the synthetic URL of
\* the manual nodes exactly when there are manual nodes; two subscriptions
\* and no manual node give subUrl1|subUrl2.
C22_RemoteInput ==
    RemoteMerged =>
        /\ SelectSeq(job.urls, LAMBDA url : url # NodesUrl) = SelectedSubs
        /\ Len(job.urls) = Len(SelectedSubs) + (IF node_links # <<>> THEN 1 ELSE 0)
        /\ (Len(SelectedSubs) = 2 /\ node_links = <<>>) =>
              job.urls = <<SelectedSubs[1], SelectedSubs[2]>>

C22_Witness ==
    /\ RemoteMerged
    /\ airportStrategy = "random"
    /\ Len(job.selectedSources) = 2
    /\ node_links = <<>>
    /\ job.urls = job.selectedSources

GroupIndex(groupId) == CHOOSE i \in 1..Len(GroupOrder) : GroupOrder[i] = groupId

SourceOf(nodes) == [i \in 1..Len(nodes) |-> nodes[i].subscriptionName]

\* C24: the sources of the merged node list and of the URL list are in
\* iteration order: the subscriptions in selection order (under group
\* rotation in the order of the groups), and the manual nodes last, or
\* first under manual_nodes_first.
C24_SourceOrder ==
    (job.pc = "merged" /\ ruleTables = NoRules) =>
        LET subs == SelectedSubs
            manual == [i \in 1..Len(node_links) |-> 0]
            nodesOf == [i \in 1..(3 * Len(job.fetched)) |-> job.fetched[((i - 1) \div 3) + 1]]
        IN  /\ \A i, j \in 1..Len(job.fetched) :
                  i < j => IF job.type = "selection"
                           THEN job.fetched[i] < job.fetched[j]
                           ELSE GroupIndex(GroupOf(job.fetched[i]))
                                  < GroupIndex(GroupOf(job.fetched[j]))
            /\ job.mode = "local" =>
                  SourceOf(job.allNodes) =
                      IF node_prefix_settings.manual_nodes_first THEN manual \o nodesOf
                      ELSE nodesOf \o manual
            /\ job.mode = "remote" =>
                  job.urls = IF node_links = <<>> THEN subs
                             ELSE IF node_prefix_settings.manual_nodes_first
                             THEN <<NodesUrl>> \o subs
                             ELSE Append(subs, NodesUrl)

PrefixMarks(node) == Len(SelectSeq(node.name, LAMBDA token : token = " - "))

\* C25: a manual node with a group name, under enable_group_name_prefix and
\* a custom manual prefix, carries the group name and not the custom prefix;
\* no node carries more than one prefix.
C25_GroupNameBeforeCustom ==
    LocalMerged =>
        \A i \in 1..Len(job.allNodes) :
            LET node == job.allNodes[i]
            IN  /\ PrefixMarks(node) <= 1
                /\ (node.isManual /\ node.group_name # ""
                      /\ node_prefix_settings.enable_group_name_prefix
                      /\ node_prefix_settings.manual_node_prefix # "") =>
                        /\ SubSeq(node.name, 1, 2) = <<node.group_name, " - ">>
                        /\ node_prefix_settings.manual_node_prefix \notin Range(node.name)

C25_Witness ==
    /\ LocalMerged
    /\ node_prefix_settings.enable_group_name_prefix
    /\ node_prefix_settings.manual_node_prefix = "custom"
    /\ ~node_prefix_settings.enable_subscription_prefix
    /\ node_links = <<"ok", "grouped">>
    /\ Len(job.allNodes) >= 2
    /\ Names(SubSeq(job.allNodes, Len(job.allNodes) - 1, Len(job.allNodes)))
          = << <<"custom", " - ", "JP", "-09">>, <<"G", " - ", "JP", "-09">> >>

FlagFormat ==
    [sb |-> "singbox", surge |-> "surge", quanx |-> "quantumultx",
     loon |-> "loon", clash |-> "clash"]

\* C26: the target is the explicit parameter of the request when there is
\* one (query.target, else a format flag); the User-Agent decides only when
\* the query names no format; with neither, the target is base64.
C26_TargetPrecedence ==
    request.resolved # "" =>
        /\ request.target # "" => request.resolved = request.target
        /\ (request.target = "" /\ request.flag # "") =>
              request.resolved = FlagFormat[request.flag]
        /\ (request.target = "" /\ request.flag = ""
              /\ request.ua \notin {"sing-box", "surge", "quantumult", "loon", "clash"}) =>
              request.resolved = "base64"

InFlight == {k \in 1..MaxTasks : pool.task[k].st \in {"request", "backoff"}}

\* C27: the number of update tasks started and not finished never exceeds
\* updateSettings.concurrency.
C27_BoundedInFlight == Cardinality(InFlight) <= pool.concurrency

\* C28: after the abort no task is submitted and no attempt, first or
\* retry, is started; the tasks in flight end without success and the batch
\* ends with every started task finished.
C28_AbortStops ==
    /\ \A k \in 1..MaxTasks : ~pool.task[k].late
    /\ pool.pc = "done" =>
          \A k \in 1..MaxTasks : pool.task[k].st \in {"new", "done"}
    /\ \A k \in 1..MaxTasks :
          (pool.task[k].result = "aborted") =>
              pool.aborted /\ pool.task[k].st = "done"

\* C29: a subscription is attempted at most retries + 1 times, never after a
\* success, and the waits before its retries are in geometric progression.
C29_RetryBackoff ==
    \A k \in 1..MaxTasks :
        LET t == pool.task[k]
        IN  /\ t.attempts <= pool.retries + 1
            /\ t.result = "success" => t.st = "done"
            /\ Len(t.waits) = (IF t.st = "backoff" THEN t.attempts ELSE t.attempts - 1)
                 \/ t.st = "new"
            /\ \A j \in 1..(Len(t.waits) - 2) :
                  t.waits[j + 1] * t.waits[j + 1] = t.waits[j] * t.waits[j + 2]

\* C30: for a link of any supported protocol, parsing the regenerated link
\* gives the server, port, credential and parameter map of the first parse;
\* every query key of the link that is not an identity field is in the
\* parameter map of both.
C30_SemanticRoundTrip ==
    codec.pc = "reparsed" =>
        /\ codec.second.protocol = codec.first.protocol
        /\ codec.second.server = codec.first.server
        /\ codec.second.port = codec.first.port
        /\ codec.second.password = codec.first.password
        /\ codec.second.protocol_params = codec.first.protocol_params
        /\ \A key \in DOMAIN codec.link.query \cap QueryKeys :
              /\ key \in DOMAIN codec.second.protocol_params
              /\ codec.second.protocol_params[key].v = codec.link.query[key].v

\* C31: a list with one malformed or unsupported line among valid ones parses
\* to exactly the nodes of the valid lines, in their order.
C31_BatchResilience ==
    codec.pc = "listed" =>
        LET valid == SelectSeq(codec.links, LAMBDA link : link \in ValidLines)
        IN  codec.parsedNodes = [i \in 1..Len(valid) |-> parseNodeLinks(valid[i])]

----------------------------------------------------------------------------
\* Properties of a preview request (SpecPreview)

\* C32: no step of a preview request changes polling_index or
\* group_polling_indices.
C32_PreviewKeepsCursor ==
    [][isPreview => UNCHANGED <<polling_index, group_polling_indices>>]_vars

----------------------------------------------------------------------------
\* Properties of the cursor arithmetic (SpecCursor)

Available == subscription_ids \cap subscriptions

\* C33: under a polling strategy every selected source and every candidate
\* is an existing subscription, every start index is inside its range, and
\* every cursor value of updatedPollingState is inside [0, N) (flat) or
\* inside [0, size of the group) (group).
C33_CursorInRange ==
    job.pc # "idle" =>
        /\ \A i \in 1..Len(job.selectedSources) : job.selectedSources[i] \in Available
        /\ "polling_index" \in DOMAIN job.updatedPollingState =>
              job.updatedPollingState.polling_index \in 0..(Cardinality(Available) - 1)
        /\ \A i \in 1..Len(job.candidateSets) :
              LET cs == job.candidateSets[i]
              IN  /\ cs.startIndex \in 0..(cs.totalInGroup - 1)
                  /\ cs.candidates # <<>>
                  /\ Range(cs.candidates) \subseteq subscriptions
        /\ "group_polling_indices" \in DOMAIN job.updatedPollingState =>
              LET state == job.updatedPollingState.group_polling_indices
              IN  \A groupId \in DOMAIN state :
                     state[groupId] \in 0..(Len(GroupRows(groupId)) - 1)

----------------------------------------------------------------------------
\* Properties of group rotation within one generation (SpecPipeline)

\* C34: under polling (group_request) every probed subscription, every
\* subscription whose nodes are in the output and every URL handed to the
\* conversion service belongs to the profile's subscription_ids.
C34_OnlySelectedProbed ==
    airportStrategy = "polling (group_request)" =>
        /\ Range(job.fetches) \subseteq subscription_ids
        /\ Range(job.fetched) \subseteq subscription_ids
        /\ Range(job.urls) \ {NodesUrl} \subseteq subscription_ids
        /\ \A i \in 1..Len(job.allNodes) :
              ~job.allNodes[i].isManual => job.allNodes[i].subscriptionName \in subscription_ids

----------------------------------------------------------------------------
\* Properties of repeated generations under group rotation (SpecRepeat)

\* C35: every group with a selected subscription that answers every fetch
\* contributes a source after finitely many generations.
C35_NotStarved ==
    \A groupId \in Groups : <>(gp.probe[groupId].winner # -1)

----------------------------------------------------------------------------
\* Properties of overlapping requests under group rotation (SpecOverlap)

\* The groups in which a probe of the request whose write-back completes in
\* this step succeeded.
WriterWon ==
    IF gp.write = "pending" /\ gp'.write = "applied"
    THEN {groupId \in Groups : gp.probe[groupId].winner # -1}
    ELSE {GroupOf(job.fetched[i]) : i \in 1..Len(job.fetched)}

\* C36: a write-back changes the entry of a group only when a probe of its
\* own request succeeded in that group.
C36_WritesOwnGroupsOnly ==
    [][\A groupId \in Groups :
          Get(group_polling_indices', groupId) # Get(group_polling_indices, groupId)
              => groupId \in WriterWon]_vars

----------------------------------------------------------------------------
\* Properties of the callback of the conversion service (SpecCallback)

\* The client request was answered with the conversion of its callback.
ViaCallback ==
    /\ gen["g1"].pc = "responded"
    /\ gen["g1"].status = 200
    /\ Head(gen["g1"].payload) = "stream"

\* C37: a client request answered through the conversion service delivers
\* the nodes of the subscription it selected itself, and once the write-backs
\* it caused are stored the cursor is one position after its start.
C37_OneAdvancePerRequest ==
    ViaCallback =>
        /\ Tail(gen["g1"].payload) = gen["g1"].selectedSources
        /\ gen["g1"].write = "applied" /\ gen["g2"].write = "applied" =>
              polling_index = (gen["g1"].startIndex + 1) % Len(gen["g1"].allSubs)

\* C38: the request that carries b64 never waits for the conversion service;
\* it is answered with its own encoded node list, or with 404 without nodes.
C38_CallbackAnsweredDirectly ==
    /\ gen["g2"].pc # "converting"
    /\ gen["g2"].pc = "responded" =>
          \/ gen["g2"].status = 404
          \/ /\ gen["g2"].status = 200
             /\ gen["g2"].payload = <<"base64">> \o gen["g2"].selectedSources

C38_Witness ==
    /\ ViaCallback
    /\ gen["g2"].pc = "responded"
    /\ gen["g2"].status = 200

----------------------------------------------------------------------------
\* Properties of the log and the progress of the batch update (SpecRestart)

\* How often subscription k stands in the three lists of updateLog.
Recorded(k) ==
    LET Count(list) == Cardinality({n \in 1..Len(list) : list[n] = k})
    IN  Count(pool.updateLog.success) + Count(pool.updateLog.expiring)
            + Count(pool.updateLog.failed)

Finished == {k \in 1..MaxTasks : pool.task[k].st = "done"}

\* C39: a subscription of the batch stands in the lists once when its task
\* has finished and not before, updateProgress.current is the number of
\* finished tasks and at most total, and a batch that ends without an abort
\* has current = total.
C39_EveryTaskRecordedOnce ==
    /\ \A k \in 1..MaxTasks : Recorded(k) = IF k \in Finished THEN 1 ELSE 0
    /\ pool.updateProgress.current = Cardinality(Finished)
    /\ pool.updateProgress.current <= pool.updateProgress.total
    /\ pool.pc = "done" /\ ~pool.aborted =>
          pool.updateProgress.current = pool.updateProgress.total

====
